---- MODULE Spec2Model ----
(***************************************************************************)
(* The in-memory state manager of elogind's login daemon: the keyed        *)
(* registries of the Manager (devices, seats, sessions, users, inhibitors, *)
(* buttons), the registry add operations, and the seat-device hot-plug     *)
(* handler manager_process_seat_device with the seat GC queue.             *)
(*                                                                         *)
(* C functions are operators from a Manager value (and the call's          *)
(* arguments) to a result record; the actions apply them to the variable   *)
(* m.  Object pointers are addresses (integers, NULL = 0) of the records   *)
(* held in the registries; C strings that the code inspects character by   *)
(* character are sequences of characters.                                  *)
(***************************************************************************)
EXTENDS Integers, Sequences, FiniteSets, TLC

VARIABLES
    m,      \* the Manager: its registries and the seat GC queue
    call,   \* the operation last invoked, with its arguments
    ret,    \* the int it returned
    out,    \* the pointer it stored through its output parameter (NULL if none)
    line,   \* the source line of the return statement it left through
    procs   \* the daemon's processes: where each one is in elogind_daemonize

vars == <<m, call, ret, out, line, procs>>

----------------------------------------------------------------------------
(* Bounds and constants *)

\* The allocator holds at most MaxRecords live records; a further
\* allocation fails (an allocation may also fail earlier).
MaxRecords == 3

ENOENT == 2
EIO == 5
ECHILD == 10
ENOMEM == 12
EINVAL == 22
EPROTO == 71

NULL == 0
\* The NULL of a char*, distinct from every string (strings are sequences
\* of single characters).
NULL_STR == <<"NULL">>

Syspaths == {"/sys/devices/card0", "/sys/devices/card1"}
Sysnames == {"event0", "event1"}
SessionIds == {"c1", "c2"}
InhibitorIds == {"1", "2"}

\* The NULL of a bus name or user name pointer.
NULL_NAME == "(null)"

\* Inhibit categories (bits of InhibitWhat, as sets of bits) and modes.
INHIBIT_SHUTDOWN == {"shutdown"}
INHIBIT_SLEEP == {"sleep"}
INHIBIT_IDLE == {"idle"}
INHIBIT_BLOCK == "block"
INHIBIT_DELAY == "delay"

Str_seat0 == <<"s", "e", "a", "t", "0">>
Str_seat1 == <<"s", "e", "a", "t", "1">>
Str_dotdot_etc == <<".", ".", "/", "e", "t", "c">>
Str_empty == <<>>

\* Values the ID_SEAT property of an event takes.
IdSeatValues == {Str_seat0, Str_seat1, Str_dotdot_etc, Str_empty}

Letters == {"a", "b", "c", "d", "e", "f", "g", "h", "i", "j", "k", "l", "m",
            "n", "o", "p", "q", "r", "s", "t", "u", "v", "w", "x", "y", "z",
            "A", "B", "C", "D", "E", "F", "G", "H", "I", "J", "K", "L", "M",
            "N", "O", "P", "Q", "R", "S", "T", "U", "V", "W", "X", "Y", "Z"}
Digits == {"0", "1", "2", "3", "4", "5", "6", "7", "8", "9"}
SeatNameChars == Letters \cup Digits \cup {"-"}

----------------------------------------------------------------------------
(* Containers and the allocator *)

Put(h, k, v) == [x \in (DOMAIN h) \cup {k} |-> IF x = k THEN v ELSE h[x]]

Drop(h, k) == [x \in (DOMAIN h) \ {k} |-> h[x]]

EmptyMap == [x \in {} |-> 0]

\* hashmap_get: the record stored under the key, or NULL.
hashmap_get(h, k) == IF k \in DOMAIN h THEN h[k].ptr ELSE NULL

\* The key of the live record at address a.
KeyOf(h, a) == CHOOSE k \in DOMAIN h : h[k].ptr = a

IsLive(h, a) == \E k \in DOMAIN h : h[k].ptr = a

Live(mm) ==
    Cardinality(DOMAIN mm.devices) + Cardinality(DOMAIN mm.seats)
    + Cardinality(DOMAIN mm.sessions) + Cardinality(DOMAIN mm.users)
    + Cardinality(DOMAIN mm.inhibitors) + Cardinality(DOMAIN mm.buttons)

\* An allocation fails when the caller's fault input says so or the heap
\* is full.
AllocFails(mm, oom) == oom \/ Live(mm) >= MaxRecords

\* The lowest address of the kind's arena that no live record occupies.
NewPtr(h) ==
    LET used == {h[k].ptr : k \in DOMAIN h}
    IN  CHOOSE a \in 1..(Cardinality(used) + 1) :
            a \notin used /\ \A b \in 1..(a - 1) : b \in used

RemoveFromSeq(s, x) == SelectSeq(s, LAMBDA y : y # x)

InSeq(s, x) == \E i \in 1..Len(s) : s[i] = x

\* The Manager after manager_new: empty registries, empty GC queue, no
\* watched bus names, the kill policy switched off; monotonic is the
\* reading of the monotonic clock, udev what the udev context answers when
\* the drm devices are enumerated, cgroup_empty the cgroup paths that were
\* notified as empty.
manager_new ==
    [devices |-> EmptyMap, seats |-> EmptyMap, seat_gc_queue |-> {},
     sessions |-> EmptyMap, users |-> EmptyMap,
     inhibitors |-> EmptyMap, buttons |-> EmptyMap,
     busnames |-> {}, monotonic |-> 1,
     kill_user_processes |-> FALSE, kill_exclude_users |-> {},
     kill_only_users |-> {},
     udev |-> [enumerate |-> "ok", err |-> 0, items |-> <<>>],
     cgroup_empty |-> <<>>]

----------------------------------------------------------------------------
(* Devices and seats *)

Dev(mm, d) == mm.devices[KeyOf(mm.devices, d)]

SeatRec(mm, s) == mm.seats[KeyOf(mm.seats, s)]

SetDev(mm, d, rec) == [mm EXCEPT !.devices[KeyOf(mm.devices, d)] = rec]

SetSeat(mm, s, rec) == [mm EXCEPT !.seats[KeyOf(mm.seats, s)] = rec]

\* A seat is empty when it has no devices and no sessions.
SeatIsEmpty(rec) == rec.devices = <<>> /\ rec.sessions = {}

\* seat_add_to_gc_queue: mark the seat GC-pending; a device with no seat
\* has no seat to enqueue.
seat_add_to_gc_queue(mm, s) ==
    IF s = NULL THEN mm ELSE [mm EXCEPT !.seat_gc_queue = @ \cup {s}]

\* device_new: allocate a device record and insert it under its sysfs path.
device_new(mm, sysfs, master, oom) ==
    IF AllocFails(mm, oom)
    THEN [m |-> mm, out |-> NULL]
    ELSE LET a == NewPtr(mm.devices)
         IN  [m |-> [mm EXCEPT !.devices =
                        Put(@, sysfs, [ptr |-> a, master |-> master, seat |-> NULL])],
              out |-> a]

\* device_detach: take the device off its seat's device list and clear its
\* back-pointer; a seat that becomes empty is enqueued for GC.
device_detach(mm, d) ==
    LET s == Dev(mm, d).seat
    IN  IF s = NULL THEN mm
        ELSE LET srec == [SeatRec(mm, s) EXCEPT !.devices = RemoveFromSeq(@, d)]
                 m1 == SetSeat(mm, s, srec)
                 m2 == SetDev(m1, d, [Dev(m1, d) EXCEPT !.seat = NULL])
             IN  IF SeatIsEmpty(srec) THEN seat_add_to_gc_queue(m2, s) ELSE m2

\* device_free: detach, then remove the record from the registry.
device_free(mm, d) ==
    LET m1 == device_detach(mm, d)
    IN  [m1 EXCEPT !.devices = Drop(@, KeyOf(m1.devices, d))]

\* device_attach: a device points to one seat; attaching it to another seat
\* detaches it from the one it had.
device_attach(mm, d, s) ==
    IF Dev(mm, d).seat = s THEN mm
    ELSE LET m1 == device_detach(mm, d)
             m2 == SetDev(m1, d, [Dev(m1, d) EXCEPT !.seat = s])
         IN  SetSeat(m2, s, [SeatRec(m2, s) EXCEPT !.devices = Append(@, d)])

\* seat_new: allocate a seat record and insert it under its id.
seat_new(mm, id, oom) ==
    IF AllocFails(mm, oom)
    THEN [m |-> mm, out |-> NULL]
    ELSE LET a == NewPtr(mm.seats)
         IN  [m |-> [mm EXCEPT !.seats =
                        Put(@, id, [ptr |-> a, devices |-> <<>>, sessions |-> {},
                                    started |-> FALSE])],
              out |-> a]

seat_start(mm, s) == SetSeat(mm, s, [SeatRec(mm, s) EXCEPT !.started = TRUE])

\* seat_name_is_valid: alphanumeric and "-", leading letter, bounded length.
seat_name_is_valid(sn) ==
    /\ sn # NULL_STR
    /\ Len(sn) >= 1
    /\ Len(sn) <= 255
    /\ sn[1] \in Letters
    /\ \A i \in 1..Len(sn) : sn[i] \in SeatNameChars

\* The GC sweep: every seat in the queue leaves it, and is destroyed if it
\* is still empty.
manager_gc(mm) ==
    LET doomed == {s \in mm.seat_gc_queue : SeatIsEmpty(SeatRec(mm, s))}
    IN  [mm EXCEPT !.seats = [k \in {x \in DOMAIN @ : @[x].ptr \notin doomed} |-> @[k]],
                   !.seat_gc_queue = {}]

----------------------------------------------------------------------------
(* udev device events *)

udev_device_get_action(d) == d.action

udev_device_get_syspath(d) == d.syspath

udev_device_get_property_value(d, key) ==
    IF key \in DOMAIN d.properties THEN d.properties[key] ELSE NULL_STR

udev_device_has_tag(d, tag) == tag \in d.tags

streq_ptr(a, b) == a = b

isempty(s) == s = NULL_STR \/ s = <<>>

----------------------------------------------------------------------------
(* Registry add operations *)

\* manager_add_device assigning the flag instead of OR-folding it.
manager_add_device_assign(mm, sysfs, master, oom) ==
    LET d == hashmap_get(mm.devices, sysfs)
    IN  IF d # NULL
        THEN [m |-> SetDev(mm, d, [Dev(mm, d) EXCEPT !.master = master]),
              r |-> 0, out |-> d]
        ELSE LET n == device_new(mm, sysfs, master, oom)
             IN  IF n.out = NULL
                 THEN [m |-> mm, r |-> -ENOMEM, out |-> NULL]
                 ELSE [m |-> n.m, r |-> 0, out |-> n.out]

\* manager_add_device flipping the flag of a known device on a master event.
manager_add_device_toggle(mm, sysfs, master, oom) ==
    LET d == hashmap_get(mm.devices, sysfs)
    IN  IF d # NULL
        THEN [m |-> SetDev(mm, d, [Dev(mm, d) EXCEPT !.master = (@ # master)]),
              r |-> 0, out |-> d]
        ELSE LET n == device_new(mm, sysfs, master, oom)
             IN  IF n.out = NULL
                 THEN [m |-> mm, r |-> -ENOMEM, out |-> NULL]
                 ELSE [m |-> n.m, r |-> 0, out |-> n.out]

manager_add_device(mm, sysfs, master, oom) ==
    LET d == hashmap_get(mm.devices, sysfs)
    IN  IF d # NULL
        THEN \* we support adding master-flags, but not removing them
             [m |-> SetDev(mm, d, [Dev(mm, d) EXCEPT !.master = @ \/ master]),
              r |-> 0, out |-> d]
        ELSE LET n == device_new(mm, sysfs, master, oom)
             IN  IF n.out = NULL
                 THEN [m |-> mm, r |-> -ENOMEM, out |-> NULL]
                 ELSE [m |-> n.m, r |-> 0, out |-> n.out]

manager_add_seat(mm, id, oom) ==
    LET s == hashmap_get(mm.seats, id)
    IN  IF s # NULL
        THEN [m |-> mm, r |-> 0, out |-> s]
        ELSE LET n == seat_new(mm, id, oom)
             IN  IF n.out = NULL
                 THEN [m |-> mm, r |-> -ENOMEM, out |-> NULL]
                 ELSE [m |-> n.m, r |-> 0, out |-> n.out]

\* session_new, user_new, inhibitor_new, button_new: allocate a record and
\* insert it under its key.  The constructors get the key only (users: and
\* gid, name); every other attribute of the new record is unset until the
\* caller fills it in.
session_new(mm, id, oom) ==
    IF AllocFails(mm, oom)
    THEN [m |-> mm, out |-> NULL]
    ELSE LET a == NewPtr(mm.sessions)
         IN  [m |-> [mm EXCEPT !.sessions =
                        Put(@, id, [ptr |-> a, user |-> NULL, seat |-> NULL,
                                    controller |-> NULL_NAME, state |-> "opening",
                                    idle_hint |-> FALSE, idle_ts |-> 0])],
              out |-> a]

user_new(mm, uid, gid, name, oom) ==
    IF AllocFails(mm, oom)
    THEN [m |-> mm, out |-> NULL]
    ELSE LET a == NewPtr(mm.users)
         IN  [m |-> [mm EXCEPT !.users =
                        Put(@, uid, [ptr |-> a, gid |-> gid, name |-> name,
                                     sessions |-> {}])],
              out |-> a]

inhibitor_new(mm, id, oom) ==
    IF AllocFails(mm, oom)
    THEN [m |-> mm, out |-> NULL]
    ELSE LET a == NewPtr(mm.inhibitors)
         IN  [m |-> [mm EXCEPT !.inhibitors =
                        Put(@, id, [ptr |-> a, what |-> {}, mode |-> INHIBIT_BLOCK,
                                    uid |-> 0, pid |-> 0, since |-> 0,
                                    started |-> FALSE])],
              out |-> a]

button_new(mm, name, oom) ==
    IF AllocFails(mm, oom)
    THEN [m |-> mm, out |-> NULL]
    ELSE LET a == NewPtr(mm.buttons)
         IN  [m |-> [mm EXCEPT !.buttons =
                        Put(@, name, [ptr |-> a, seat |-> NULL_STR,
                                      docked |-> FALSE, lid_closed |-> FALSE,
                                      fd |-> -1])],
              out |-> a]

\* manager_add_session without the lookup: every call allocates.
manager_add_session_always_new(mm, id, oom) ==
    LET n == session_new(mm, id, oom)
    IN  IF n.out = NULL
        THEN [m |-> mm, r |-> -ENOMEM, out |-> NULL]
        ELSE [m |-> n.m, r |-> 0, out |-> n.out]

\* manager_add_session initialising the record again when the id is stored.
manager_add_session_reinit(mm, id, oom) ==
    LET ss == hashmap_get(mm.sessions, id)
    IN  IF ss # NULL
        THEN [m |-> [mm EXCEPT !.sessions[id].user = NULL, !.sessions[id].seat = NULL],
              r |-> 0, out |-> ss]
        ELSE LET n == session_new(mm, id, oom)
             IN  IF n.out = NULL
                 THEN [m |-> mm, r |-> -ENOMEM, out |-> NULL]
                 ELSE [m |-> n.m, r |-> 0, out |-> n.out]

manager_add_session(mm, id, oom) ==
    LET s == hashmap_get(mm.sessions, id)
    IN  IF s # NULL
        THEN [m |-> mm, r |-> 0, out |-> s]
        ELSE LET n == session_new(mm, id, oom)
             IN  IF n.out = NULL
                 THEN [m |-> mm, r |-> -ENOMEM, out |-> NULL]
                 ELSE [m |-> n.m, r |-> 0, out |-> n.out]

\* manager_add_user refreshing gid and name of a user it finds.
manager_add_user_update(mm, uid, gid, name, oom) ==
    LET u == hashmap_get(mm.users, uid)
    IN  IF u # NULL
        THEN [m |-> [mm EXCEPT !.users[uid].gid = gid, !.users[uid].name = name],
              r |-> 0, out |-> u]
        ELSE LET n == user_new(mm, uid, gid, name, oom)
             IN  IF n.out = NULL
                 THEN [m |-> mm, r |-> -ENOMEM, out |-> NULL]
                 ELSE [m |-> n.m, r |-> 0, out |-> n.out]

manager_add_user(mm, uid, gid, name, oom) ==
    LET u == hashmap_get(mm.users, uid)
    IN  IF u # NULL
        THEN [m |-> mm, r |-> 0, out |-> u]
        ELSE LET n == user_new(mm, uid, gid, name, oom)
             IN  IF n.out = NULL
                 THEN [m |-> mm, r |-> -ENOMEM, out |-> NULL]
                 ELSE [m |-> n.m, r |-> 0, out |-> n.out]

\* The passwd database of the host.
Passwd ==
    {[pw_uid |-> 0, pw_gid |-> 0, pw_name |-> "root"],
     [pw_uid |-> 1000, pw_gid |-> 100, pw_name |-> "alice"]}

\* getpwuid: the entry of the uid, or no entry; errno is set when the
\* lookup itself fails (env = "EIO") and left 0 when the uid is unknown.
getpwuid(uid, env) ==
    IF env = "EIO" THEN [p |-> {}, errno |-> EIO]
    ELSE [p |-> {e \in Passwd : e.pw_uid = uid}, errno |-> 0]

manager_add_user_by_uid(mm, uid, env, oom) ==
    LET pw == getpwuid(uid, env)
    IN  IF pw.p = {}
        THEN [m |-> mm, r |-> IF pw.errno # 0 THEN -pw.errno ELSE -ENOENT,
              out |-> NULL]
        ELSE LET p == CHOOSE e \in pw.p : TRUE
             IN  manager_add_user(mm, uid, p.pw_gid, p.pw_name, oom)

\* manager_add_inhibitor making a new record also for an id that is stored.
manager_add_inhibitor_renew(mm, id, oom) ==
    LET n == inhibitor_new([mm EXCEPT !.inhibitors = Drop(@, id)], id, oom)
    IN  IF n.out = NULL
        THEN [m |-> mm, r |-> -ENOMEM, out |-> NULL]
        ELSE [m |-> n.m, r |-> 0, out |-> n.out]

manager_add_inhibitor(mm, id, oom) ==
    LET i == hashmap_get(mm.inhibitors, id)
    IN  IF i # NULL
        THEN [m |-> mm, r |-> 0, out |-> i]
        ELSE LET n == inhibitor_new(mm, id, oom)
             IN  IF n.out = NULL
                 THEN [m |-> mm, r |-> -ENOMEM, out |-> NULL]
                 ELSE [m |-> n.m, r |-> 0, out |-> n.out]

\* manager_add_button treating a duplicate name as an error (-EEXIST).
manager_add_button_eexist(mm, name, oom) ==
    LET b == hashmap_get(mm.buttons, name)
    IN  IF b # NULL
        THEN [m |-> mm, r |-> -17, out |-> NULL]
        ELSE LET n == button_new(mm, name, oom)
             IN  IF n.out = NULL
                 THEN [m |-> mm, r |-> -ENOMEM, out |-> NULL]
                 ELSE [m |-> n.m, r |-> 0, out |-> n.out]

manager_add_button(mm, name, oom) ==
    LET b == hashmap_get(mm.buttons, name)
    IN  IF b # NULL
        THEN [m |-> mm, r |-> 0, out |-> b]
        ELSE LET n == button_new(mm, name, oom)
             IN  IF n.out = NULL
                 THEN [m |-> mm, r |-> -ENOMEM, out |-> NULL]
                 ELSE [m |-> n.m, r |-> 0, out |-> n.out]

----------------------------------------------------------------------------
(* manager_process_seat_device *)

\* The branch test taking an event for a remove event only if its seat id
\* is valid.
seat_device_is_remove_valid(d) ==
    /\ streq_ptr(udev_device_get_action(d), "remove")
    /\ seat_name_is_valid(udev_device_get_property_value(d, "ID_SEAT"))

\* The branch test: the action alone tells a remove event from the others.
seat_device_is_remove(d) == streq_ptr(udev_device_get_action(d), "remove")

\* The remove branch without the explicit enqueue of the device's seat.
seat_device_remove_nogc(mm, device) == device_free(mm, device)

\* The remove branch, for a device found in the registry.
seat_device_remove(mm, device) ==
    device_free(seat_add_to_gc_queue(mm, Dev(mm, device).seat), device)

\* The seat id with the default applied to an absent ID_SEAT only.
seat_device_seat_name_nullonly(d) ==
    LET sn == udev_device_get_property_value(d, "ID_SEAT")
    IN  IF sn = NULL_STR THEN Str_seat0 ELSE sn

\* The seat id of an event: ID_SEAT, or seat0 when it is absent or empty.
seat_device_seat_name(d) ==
    LET sn == udev_device_get_property_value(d, "ID_SEAT")
    IN  IF isempty(sn) THEN Str_seat0 ELSE sn

\* The validity check reduced to a check for the empty name.
seat_device_invalid_empty_only(sn) == isempty(sn)

\* An event whose seat id fails the grammar is dropped with a warning.
seat_device_invalid(sn) == ~seat_name_is_valid(sn)

\* The ignore test with the seat condition inverted.
seat_device_ignored_known(master, seat) == ~master /\ seat # NULL

\* Ignore non-master devices for unknown seats.
seat_device_ignored(master, seat) == ~master /\ seat = NULL

\* No rollback: the device record is left behind.
seat_device_rollback_none(mm, device) == mm

\* The rollback when seat creation failed after the device upsert.
seat_device_rollback(mm, device) ==
    IF Dev(mm, device).seat = NULL THEN device_free(mm, device) ELSE mm

\* The tail without seat_start.
seat_device_attach_nostart(mm, device, seat) == device_attach(mm, device, seat)

\* The tail storing the seat pointer without device_attach.
seat_device_attach_raw(mm, device, seat) ==
    seat_start(SetDev(mm, device, [Dev(mm, device) EXCEPT !.seat = seat]), seat)

\* The tail starting the seat without attaching the device.
seat_device_attach_startonly(mm, device, seat) == seat_start(mm, seat)

\* The tail putting the device on the seat's list without taking it off the
\* list of the seat it had.
seat_device_attach_keepold(mm, device, seat) ==
    IF Dev(mm, device).seat = seat THEN seat_start(mm, seat)
    ELSE LET m1 == SetDev(mm, device, [Dev(mm, device) EXCEPT !.seat = seat])
         IN  seat_start(SetSeat(m1, seat, [SeatRec(m1, seat) EXCEPT
                                              !.devices = Append(@, device)]),
                        seat)

\* The tail of the non-remove branch.
seat_device_attach(mm, device, seat) ==
    seat_start(device_attach(mm, device, seat), seat)

\* oom names the allocation that fails in this call: "device", "seat" or
\* "none" (the call returns at its first failed allocation).
manager_process_seat_device(mm, d, oom) ==
    IF seat_device_is_remove(d)
    THEN LET device == hashmap_get(mm.devices, udev_device_get_syspath(d))
         IN  IF device = NULL
             THEN [m |-> mm, r |-> 0, line |-> 234]
             ELSE [m |-> seat_device_remove(mm, device), r |-> 0, line |-> 278]
    ELSE LET sn == seat_device_seat_name(d)
         IN  IF seat_device_invalid(sn)
             THEN [m |-> mm, r |-> 0, line |-> 250]
             ELSE
             LET seat == hashmap_get(mm.seats, sn)
                 master == udev_device_has_tag(d, "master-of-seat")
             IN  IF seat_device_ignored(master, seat)
                 THEN [m |-> mm, r |-> 0, line |-> 258]
                 ELSE
                 LET ad == manager_add_device(mm, udev_device_get_syspath(d),
                                              master, oom = "device")
                 IN  IF ad.r < 0
                     THEN [m |-> ad.m, r |-> ad.r, line |-> 262]
                     ELSE
                     LET as == IF seat = NULL
                               THEN manager_add_seat(ad.m, sn, oom = "seat")
                               ELSE [m |-> ad.m, r |-> 0, out |-> seat]
                     IN  IF as.r < 0
                         THEN [m |-> seat_device_rollback(as.m, ad.out),
                               r |-> as.r, line |-> 270]
                         ELSE [m |-> seat_device_attach(as.m, ad.out, as.out),
                               r |-> 0, line |-> 278]

----------------------------------------------------------------------------
(* Sessions, users and the bus-name watch set *)

Ses(mm, a) == mm.sessions[KeyOf(mm.sessions, a)]

Usr(mm, a) == mm.users[KeyOf(mm.users, a)]

\* Bind a session to its user: the session's back-pointer and the user's
\* session set.
session_set_user(mm, ss, u) ==
    [mm EXCEPT !.sessions[KeyOf(mm.sessions, ss)].user = u,
               !.users[KeyOf(mm.users, u)].sessions = @ \cup {ss}]

\* Bind a session to a seat: the session's pointer and the seat's session
\* list.
session_set_seat(mm, ss, seat) ==
    [mm EXCEPT !.sessions[KeyOf(mm.sessions, ss)].seat = seat,
               !.seats[KeyOf(mm.seats, seat)].sessions = @ \cup {ss}]

session_is_controller(rec, name) == rec.controller = name

\* manager_watch_busname copying the name before it looks it up.
manager_watch_busname_copyfirst(mm, name, fail) ==
    IF fail = "strdup" THEN [m |-> mm, r |-> -ENOMEM]
    ELSE IF name \in mm.busnames THEN [m |-> mm, r |-> 0]
    ELSE IF fail = "set_put" THEN [m |-> mm, r |-> -ENOMEM]
    ELSE [m |-> [mm EXCEPT !.busnames = @ \cup {name}], r |-> 0]

\* fail names the step that fails in this call: "strdup", "set_put" or
\* "none"; a failed set_put frees the copy and returns its error.
manager_watch_busname(mm, name, fail) ==
    IF name \in mm.busnames THEN [m |-> mm, r |-> 0]
    ELSE IF fail = "strdup" THEN [m |-> mm, r |-> -ENOMEM]
    ELSE IF fail = "set_put" THEN [m |-> mm, r |-> -ENOMEM]
    ELSE [m |-> [mm EXCEPT !.busnames = @ \cup {name}], r |-> 0]

\* set_remove: the set without the name, and the stored copy of the name
\* (NULL when the set does not hold it).
set_remove(set, name) ==
    [set |-> set \ {name}, removed |-> IF name \in set THEN name ELSE NULL_NAME]

\* manager_drop_busname without the scan of the sessions.
manager_drop_busname_noscan(mm, name) ==
    [m |-> [mm EXCEPT !.busnames = set_remove(@, name).set],
     out |-> set_remove(mm.busnames, name).removed, line |-> 222]

\* out is the copy of the name that is freed (NULL when none was stored).
manager_drop_busname(mm, name) ==
    \* keep it if the name still owns a controller
    IF \E k \in DOMAIN mm.sessions : session_is_controller(mm.sessions[k], name)
    THEN [m |-> mm, out |-> NULL_NAME, line |-> 219]
    ELSE [m |-> [mm EXCEPT !.busnames = set_remove(@, name).set],
          out |-> set_remove(mm.busnames, name).removed, line |-> 222]

\* The bus call add_session(id, uid, ...): the user is upserted by uid, the
\* session is created under a new id and bound to the user and, if one is
\* given, to the seat.  oom names the allocation that fails: "user",
\* "session" or "none".
create_session(mm, id, uid, seat, oom) ==
    LET au == manager_add_user_by_uid(mm, uid, "ok", oom = "user")
    IN  IF au.r < 0 THEN [m |-> mm, r |-> au.r, out |-> NULL]
        ELSE
        LET as == manager_add_session(au.m, id, oom = "session")
        IN  IF as.r < 0 THEN [m |-> mm, r |-> as.r, out |-> NULL]
            ELSE
            LET m1 == session_set_user(as.m, as.out, au.out)
                m2 == IF seat = NULL THEN m1 ELSE session_set_seat(m1, as.out, seat)
            IN  [m |-> m2, r |-> 0, out |-> as.out]

\* session_set_controller: the bus peer becomes the session's controller
\* and is watched.
session_set_controller(mm, ss, name, fail) ==
    LET w == manager_watch_busname(mm, name, fail)
    IN  IF w.r < 0 THEN [m |-> mm, r |-> w.r]
        ELSE [m |-> [w.m EXCEPT !.sessions[KeyOf(mm.sessions, ss)].controller = name],
              r |-> 0]

\* session_free (the session is released): it leaves its user's session set
\* and its seat's session list, then the registry; a seat it leaves empty is
\* enqueued for GC, a user it leaves without sessions is freed, and the
\* watch of its controller is dropped unless another session claims the peer.
session_free(mm, ss) ==
    LET rec == Ses(mm, ss)
        m1 == IF rec.user = NULL THEN mm
              ELSE [mm EXCEPT !.users[KeyOf(mm.users, rec.user)].sessions = @ \ {ss}]
        m2 == IF rec.seat = NULL THEN m1
              ELSE LET sk == KeyOf(m1.seats, rec.seat)
                       m1a == [m1 EXCEPT !.seats[sk].sessions = @ \ {ss}]
                   IN  IF SeatIsEmpty(m1a.seats[sk])
                       THEN seat_add_to_gc_queue(m1a, rec.seat) ELSE m1a
        m3 == [m2 EXCEPT !.sessions = Drop(@, KeyOf(mm.sessions, ss))]
        m4 == IF rec.user # NULL /\ Usr(m3, rec.user).sessions = {}
              THEN [m3 EXCEPT !.users = Drop(@, KeyOf(m3.users, rec.user))]
              ELSE m3
    IN  IF rec.controller = NULL_NAME THEN m4
        ELSE manager_drop_busname(m4, rec.controller).m

\* The session state machine: opening -> active <-> online -> closing.
SessionSuccessors(st) ==
    CASE st = "opening" -> {"active"}
      [] st = "active" -> {"online"}
      [] st = "online" -> {"active", "closing"}
      [] st = "closing" -> {}

----------------------------------------------------------------------------
(* Process-to-session resolver *)

Pids == {1, 2}

\* The failure of the control-group classifier.
CG_FAIL == "(cg-fail)"

\* The classifier's view of the host: for each process the session id its
\* control group names, or a failure.
CgroupEnvs == [Pids -> SessionIds \cup {CG_FAIL}]

\* cg_pid_get_session: r < 0 on failure, else the session id.
cg_pid_get_session(cg, pid) ==
    IF cg[pid] = CG_FAIL
    THEN [r |-> -ENOENT, name |-> NULL_NAME]
    ELSE [r |-> 0, name |-> cg[pid]]

\* What the caller's output variable holds before a call.
UNSET == -1

\* manager_get_session_by_pid answering 0 also for a session it found.
manager_get_session_by_pid_never(mm, pid, cg, prev) ==
    IF pid < 1 THEN [r |-> -EINVAL, out |-> prev] ELSE [r |-> 0, out |-> prev]

\* prev is what the caller's Session* held before the call; it is what the
\* caller finds there when the function does not write the output.
manager_get_session_by_pid(mm, pid, cg, prev) ==
    IF pid < 1
    THEN [r |-> -EINVAL, out |-> prev]
    ELSE LET c == cg_pid_get_session(cg, pid)
         IN  IF c.r < 0
             THEN [r |-> 0, out |-> prev]
             ELSE LET ss == hashmap_get(mm.sessions, c.name)
                  IN  IF ss = NULL
                      THEN [r |-> 0, out |-> prev]
                      ELSE [r |-> 1, out |-> ss]

\* manager_get_user_by_pid treating only a negative result as a failure.
manager_get_user_by_pid_negonly(mm, pid, cg, prev) ==
    LET g == manager_get_session_by_pid(mm, pid, cg, NULL)
    IN  IF g.r < 0
        THEN [r |-> g.r, out |-> prev]
        ELSE [r |-> 1, out |-> IF g.out = NULL THEN NULL ELSE Ses(mm, g.out).user]

\* The local Session* is uninitialized before the call and is read only
\* after the call wrote it (r > 0).
manager_get_user_by_pid(mm, pid, cg, prev) ==
    LET g == manager_get_session_by_pid(mm, pid, cg, NULL)
    IN  IF g.r <= 0
        THEN [r |-> g.r, out |-> prev]
        ELSE [r |-> 1, out |-> Ses(mm, g.out).user]

----------------------------------------------------------------------------
(* Inhibitor engine *)

\* No uid filter.
UID_INVALID == -1

session_is_active(rec) == rec.state \in {"active", "online"}

\* Whether the process belongs to a session that is active or online.
pid_is_active(mm, pid, cg) ==
    LET g == manager_get_session_by_pid(mm, pid, cg, NULL)
    IN  g.r > 0 /\ session_is_active(Ses(mm, g.out))

\* Whether one inhibitor counts for a query.
inhibitor_matches(mm, i, w, mode, ignore_inactive, for_uid, cg) ==
    /\ (i.what \cap w) # {}
    /\ i.mode = mode
    /\ for_uid # UID_INVALID => i.uid = for_uid
    /\ ignore_inactive => pid_is_active(mm, i.pid, cg)

\* The loop over the stored inhibitors: acc holds the answer so far.
RECURSIVE is_inhibited_loop(_, _, _, _, _, _, _, _)
is_inhibited_loop(mm, todo, acc, w, mode, ignore_inactive, for_uid, cg) ==
    IF todo = {} THEN acc
    ELSE LET k == CHOOSE x \in todo : TRUE
             i == mm.inhibitors[k]
             nxt == IF ~inhibitor_matches(mm, i, w, mode, ignore_inactive, for_uid, cg)
                    THEN acc
                    ELSE [r |-> TRUE,
                          since |-> IF ~acc.r \/ i.since < acc.since
                                    THEN i.since ELSE acc.since]
         IN  is_inhibited_loop(mm, todo \ {k}, nxt, w, mode, ignore_inactive,
                               for_uid, cg)

manager_is_inhibited(mm, w, mode, ignore_inactive, for_uid, cg) ==
    is_inhibited_loop(mm, DOMAIN mm.inhibitors, [r |-> FALSE, since |-> 0],
                      w, mode, ignore_inactive, for_uid, cg)

\* The bus call create_inhibitor fills in the record manager_add_inhibitor
\* made and starts it: since is the reading of the monotonic clock.
inhibitor_start(mm, id, what, mode, uid, pid) ==
    [mm EXCEPT !.inhibitors[id] =
        [@ EXCEPT !.what = what, !.mode = mode, !.uid = uid, !.pid = pid,
                  !.since = mm.monotonic, !.started = TRUE]]

\* inhibitor_free leaving the record in the registry.
inhibitor_free_keep(mm, id) == mm

\* inhibitor_free: the event loop saw EOF on the fifo.
inhibitor_free(mm, id) == [mm EXCEPT !.inhibitors = Drop(@, id)]

----------------------------------------------------------------------------
(* Idle hint *)

\* session_set_idle_hint: the session's idle report and the time it was made.
session_set_idle_hint(mm, id, b, t) ==
    [mm EXCEPT !.sessions[id].idle_hint = b, !.sessions[id].idle_ts = t]

\* session_get_idle_hint: the session's idle report (1 or 0) and its
\* timestamp.
session_get_idle_hint(rec) ==
    [r |-> IF rec.idle_hint THEN 1 ELSE 0, k |-> rec.idle_ts]

\* The loop body taking the earlier timestamp of two idle sessions.
idle_hint_step_earliest(acc, ih, k) ==
    IF ih = 0
    THEN IF ~acc.idle_hint
         THEN [acc EXCEPT !.ts = IF k < acc.ts THEN k ELSE acc.ts]
         ELSE [acc EXCEPT !.idle_hint = FALSE, !.ts = k]
    ELSE IF acc.idle_hint
         THEN [acc EXCEPT !.ts = IF k < acc.ts \/ acc.ts = 0 THEN k ELSE acc.ts]
         ELSE acc

\* The loop body in which the last non-idle session iterated sets ts.
idle_hint_step_lastbusy(acc, ih, k) ==
    IF ih = 0
    THEN [acc EXCEPT !.idle_hint = FALSE, !.ts = k]
    ELSE IF acc.idle_hint
         THEN [acc EXCEPT !.ts = IF k > acc.ts THEN k ELSE acc.ts]
         ELSE acc

\* The loop body whose first non-idle session flips idle_hint but keeps ts.
idle_hint_step_keepts(acc, ih, k) ==
    IF ih = 0
    THEN IF ~acc.idle_hint
         THEN [acc EXCEPT !.ts = IF k < acc.ts THEN k ELSE acc.ts]
         ELSE [acc EXCEPT !.idle_hint = FALSE]
    ELSE IF acc.idle_hint
         THEN [acc EXCEPT !.ts = IF k > acc.ts THEN k ELSE acc.ts]
         ELSE acc

\* The body of the loop over the sessions, for a report (ih, k) with
\* ih >= 0: acc is (idle_hint, ts) so far.
idle_hint_step(acc, ih, k) ==
    IF ih = 0
    THEN IF ~acc.idle_hint
         THEN [acc EXCEPT !.ts = IF k < acc.ts THEN k ELSE acc.ts]
         ELSE [acc EXCEPT !.idle_hint = FALSE, !.ts = k]
    ELSE IF acc.idle_hint
         THEN [acc EXCEPT !.ts = IF k > acc.ts THEN k ELSE acc.ts]
         ELSE acc

\* The loop in the order the hashmap iterates: order is a sequence of the
\* session ids; err is the negative report that ended the loop, or 0.
RECURSIVE idle_hint_loop(_, _, _, _)
idle_hint_loop(mm, order, n, acc) ==
    IF n > Len(order) THEN acc
    ELSE LET g == session_get_idle_hint(mm.sessions[order[n]])
         IN  IF g.r < 0 THEN [acc EXCEPT !.err = g.r]
             ELSE idle_hint_loop(mm, order, n + 1, idle_hint_step(acc, g.r, g.k))

\* manager_get_idle_hint leaving in *t what manager_is_inhibited stored
\* there when an inhibitor blocks idle.
manager_get_idle_hint_since(mm, order) ==
    LET inh == manager_is_inhibited(mm, INHIBIT_IDLE, INHIBIT_BLOCK, FALSE,
                                    UID_INVALID, [p \in Pids |-> CG_FAIL])
        fin == idle_hint_loop(mm, order, 1,
                              [idle_hint |-> ~inh.r, ts |-> 0, err |-> 0])
    IN  IF fin.err < 0 \/ inh.r
        THEN [r |-> IF fin.idle_hint THEN 1 ELSE 0, t |-> inh.since]
        ELSE [r |-> IF fin.idle_hint THEN 1 ELSE 0, t |-> fin.ts]

\* r is the int returned, t what the caller finds in *t: manager_is_inhibited
\* stores its since there, and the function stores ts unless it returns a
\* session's error.
manager_get_idle_hint(mm, order) ==
    LET inh == manager_is_inhibited(mm, INHIBIT_IDLE, INHIBIT_BLOCK, FALSE,
                                    UID_INVALID, [p \in Pids |-> CG_FAIL])
        fin == idle_hint_loop(mm, order, 1,
                              [idle_hint |-> ~inh.r, ts |-> 0, err |-> 0])
    IN  IF fin.err < 0
        THEN [r |-> fin.err, t |-> inh.since]
        ELSE [r |-> IF fin.idle_hint THEN 1 ELSE 0, t |-> fin.ts]

----------------------------------------------------------------------------
(* Kill policy *)

\* A string list of the configuration holds each name at most once; the
\* empty list is the unset option.
strv_contains(l, x) == x \in l

strv_isempty(l) == l = {}

\* manager_shall_kill consulting the kill-only list before the exclude list.
manager_shall_kill_onlyfirst(mm, user) ==
    IF ~mm.kill_user_processes THEN FALSE
    ELSE IF strv_isempty(mm.kill_only_users)
         THEN ~strv_contains(mm.kill_exclude_users, user)
    ELSE IF strv_contains(mm.kill_only_users, user) THEN TRUE
    ELSE FALSE

manager_shall_kill(mm, user) ==
    IF ~mm.kill_user_processes THEN FALSE
    ELSE IF strv_contains(mm.kill_exclude_users, user) THEN FALSE
    ELSE IF strv_isempty(mm.kill_only_users) THEN TRUE
    ELSE strv_contains(mm.kill_only_users, user)

----------------------------------------------------------------------------
(* Buttons *)

udev_device_get_sysname(d) == d.sysname

Btn(mm, b) == mm.buttons[KeyOf(mm.buttons, b)]

SetBtn(mm, b, rec) == [mm EXCEPT !.buttons[KeyOf(mm.buttons, b)] = rec]

\* button_set_seat: the button points to a seat by id.
button_set_seat(mm, b, sn) == SetBtn(mm, b, [Btn(mm, b) EXCEPT !.seat = sn])

\* The file descriptors of the open evdev devices.
OpenFds(mm) == {mm.buttons[k].fd : k \in DOMAIN mm.buttons} \ {-1}

\* button_open: close the fd the button holds, if any, and open the evdev
\* device of its sysname; open returns the lowest free descriptor.
button_open(mm, b) ==
    LET m1 == SetBtn(mm, b, [Btn(mm, b) EXCEPT !.fd = -1])
        fd == CHOOSE f \in 3..(3 + Cardinality(DOMAIN m1.buttons)) :
                 /\ f \notin OpenFds(m1)
                 /\ \A g \in 3..(f - 1) : g \in OpenFds(m1)
    IN  SetBtn(m1, b, [Btn(m1, b) EXCEPT !.fd = fd])

\* button_free: close the fd and remove the record from the registry.
button_free(mm, b) == [mm EXCEPT !.buttons = Drop(@, KeyOf(mm.buttons, b))]

\* An evdev switch event: the button reports its dock and lid switches.
button_set_switches(mm, b, docked, lid_closed) ==
    SetBtn(mm, b, [Btn(mm, b) EXCEPT !.docked = docked, !.lid_closed = lid_closed])

\* The seat id the button is bound to: ID_SEAT, seat0 when absent or empty.
button_device_seat_name(d) ==
    LET sn == udev_device_get_property_value(d, "ID_SEAT")
    IN  IF isempty(sn) THEN Str_seat0 ELSE sn

\* The non-remove branch without the upsert: only a known button is bound.
button_device_add_known(mm, d, oom) ==
    LET b == hashmap_get(mm.buttons, udev_device_get_sysname(d))
    IN  IF b = NULL
        THEN [m |-> mm, r |-> 0, line |-> 311]
        ELSE [m |-> button_open(button_set_seat(mm, b, button_device_seat_name(d)), b),
              r |-> 0, line |-> 311]

\* The non-remove branch: upsert, bind to the seat, open.
button_device_add(mm, d, oom) ==
    LET ab == manager_add_button(mm, udev_device_get_sysname(d), oom)
    IN  IF ab.r < 0
        THEN [m |-> ab.m, r |-> ab.r, line |-> 301]
        ELSE [m |-> button_open(button_set_seat(ab.m, ab.out,
                                                button_device_seat_name(d)),
                                ab.out),
              r |-> 0, line |-> 311]

\* oom tells whether the allocation the call reaches fails.
manager_process_button_device(mm, d, oom) ==
    IF streq_ptr(udev_device_get_action(d), "remove")
    THEN LET b == hashmap_get(mm.buttons, udev_device_get_sysname(d))
         IN  IF b = NULL
             THEN [m |-> mm, r |-> 0, line |-> 292]
             ELSE [m |-> button_free(mm, b), r |-> 0, line |-> 311]
    ELSE button_device_add(mm, d, oom)

----------------------------------------------------------------------------
(* Docking and display heuristic *)

manager_is_docked(mm) ==
    \E k \in DOMAIN mm.buttons : mm.buttons[k].docked

\* What the udev context m->udev answers during an enumeration:
\*   enumerate  "ok", or the call that fails: "new" (udev_enumerate_new
\*              returns NULL), "match" (udev_enumerate_add_match_subsystem),
\*              "scan" (udev_enumerate_scan_devices);
\*   err        the negative value the failing match or scan call returns;
\*   items      the list of drm-subsystem devices in sysfs; of each one
\*              created (whether udev_device_new_from_syspath returns a
\*              device), parent (the parent's subsystem, "none" when the
\*              device has no parent, NULL_NAME when the parent has no
\*              subsystem) and status (the sysattr, NULL_NAME when missing).
udev_device_get_parent(item) == item.parent # "none"

udev_device_get_subsystem(item) == item.parent

udev_device_get_sysattr_value(item, attr) == item.status

\* The loop body counting every connector whatever its status.
count_displays_step_any(item) ==
    IF ~udev_device_get_parent(item) THEN 0
    ELSE IF ~streq_ptr(udev_device_get_subsystem(item), "drm") THEN 0
    ELSE 1

\* The body of the loop for a device that was created: what it adds to n.
count_displays_step(item) ==
    IF ~udev_device_get_parent(item) THEN 0
    ELSE IF ~streq_ptr(udev_device_get_subsystem(item), "drm") THEN 0
    ELSE IF ~streq_ptr(udev_device_get_sysattr_value(item, "status"), "disconnected")
         THEN 1
         ELSE 0

RECURSIVE count_displays_loop(_, _, _)
count_displays_loop(items, i, n) ==
    IF i > Len(items) THEN n
    ELSE IF ~items[i].created THEN -ENOMEM
    ELSE count_displays_loop(items, i + 1, n + count_displays_step(items[i]))

manager_count_displays(mm) ==
    IF mm.udev.enumerate = "new" THEN -ENOMEM
    ELSE IF mm.udev.enumerate = "match" THEN mm.udev.err
    ELSE IF mm.udev.enumerate = "scan" THEN mm.udev.err
    ELSE count_displays_loop(mm.udev.items, 1, 0)

\* The heuristic taking any counted display for multiple displays.
multiple_displays_any(n) == n > 0

\* The heuristic taking a failed count for multiple displays.
multiple_displays_onerror(n) == n < 0 \/ n > 1

\* The test of the count: an error is logged and is not multiple displays.
multiple_displays(n) == ~(n < 0) /\ n > 1

manager_is_docked_or_multiple_displays(mm) ==
    IF manager_is_docked(mm)
    THEN [r |-> TRUE, line |-> 497]
    ELSE LET n == manager_count_displays(mm)
         IN  IF multiple_displays(n)
             THEN [r |-> TRUE, line |-> 507]
             ELSE [r |-> FALSE, line |-> 510]

----------------------------------------------------------------------------
(* VT probe *)

\* The width of int, the type of 1 << vtnr, and of unsigned short, the type
\* of vt_stat.v_state.
IntWidth == 32
VStateWidth == 16

\* Bit n of the in-use mask v (0 <= v < 2^VStateWidth).
Bit(v, n) == n < VStateWidth /\ (v \div (2 ^ n)) % 2 = 1

\* 1 << (vtnr - 1), as the results a build can produce.
vt_shift_offbyone(vtnr) == {{vtnr - 1}}

\* 1 << vtnr as the set of bits of the result, one set per result a build
\* can produce: the shift is defined below IntWidth - 1; 1 << 31 overflows
\* int; a shift by IntWidth or more is undefined, and a build either uses
\* the count modulo IntWidth (x86) or shifts the bit out.
vt_shift(vtnr) ==
    IF vtnr < IntWidth - 1 THEN {{vtnr}}
    ELSE IF vtnr = IntWidth - 1 THEN {{vtnr}, {}}
    ELSE {{vtnr % IntWidth}, {}}

\* !!(v_state & mask) for a mask given by its bits.
vt_test(v_state, mask) == IF \E b \in mask : Bit(v_state, b) THEN 1 ELSE 0

\* env: open and ioctl are 0 or the errno of the failing call, v_state is
\* what VT_GETSTATE stores; mask is the result of the shift.
vt_is_busy(vtnr, env, mask) ==
    IF env.open # 0 THEN -env.open
    ELSE IF env.ioctl # 0 THEN -env.ioctl
    ELSE vt_test(env.v_state, mask)

----------------------------------------------------------------------------
(* cgroups agent socket *)

\* The longest path; the receive buffer is char buf[PATH_MAX+1].
PATH_MAX == 3

sizeof_buf == PATH_MAX + 1

\* recv on the datagram socket: the datagram is cut to the buffer's size;
\* n is the number of bytes stored, buf the bytes stored.
recv(msg, size) ==
    LET n == IF Len(msg) > size THEN size ELSE Len(msg)
    IN  [n |-> n, buf |-> SubSeq(msg, 1, n)]

\* memchr(buf, c, n): whether c is among the first n bytes.
memchr(buf, c, n) == \E i \in 1..n : buf[i] = c

\* manager_notify_cgroup_empty: the daemon is told that the cgroup is empty.
manager_notify_cgroup_empty(mm, cgroup) ==
    [mm EXCEPT !.cgroup_empty = Append(@, cgroup)]

\* The checks without the one for an embedded NUL.
agent_message_check_nonul(buf, n) ==
    IF n = 0 THEN 123
    ELSE IF n >= sizeof_buf THEN 127
    ELSE 0

\* The checks of a received message: the line that drops it, or 0.
agent_message_check(buf, n) ==
    IF n = 0 THEN 123
    ELSE IF n >= sizeof_buf THEN 127
    ELSE IF memchr(buf, 0, n) THEN 132
    ELSE 0

\* env: errno of a failed recv (0 when it succeeds) and the datagram msg.
manager_dispatch_cgroups_agent_fd(mm, env) ==
    IF env.errno # 0
    THEN [m |-> mm, r |-> -env.errno, line |-> 120]
    ELSE LET got == recv(env.msg, sizeof_buf)
             drop == agent_message_check(got.buf, got.n)
         IN  IF drop # 0
             THEN [m |-> mm, r |-> 0, line |-> drop]
             ELSE [m |-> manager_notify_cgroup_empty(mm, got.buf),
                   r |-> 0, line |-> 138]

----------------------------------------------------------------------------
(* Setting up the cgroups agent socket and its event source *)

SD_EVENT_PRIORITY_NORMAL == 0

\* The priority of the agent's event source as dispatched before every other
\* source of the loop.
cgroups_agent_priority_first == SD_EVENT_PRIORITY_NORMAL - 8

\* The priority elogind_setup_cgroups_agent gives to the agent's source.
cgroups_agent_priority == SD_EVENT_PRIORITY_NORMAL - 5

\* The priorities of the child-death source and of the service-notification
\* source: both land before the agent's source.
EarlierPriorities ==
    (SD_EVENT_PRIORITY_NORMAL - 7)..(SD_EVENT_PRIORITY_NORMAL - 6)

\* The event loop: sources by address (kind, priority, fd) and the pending
\* sources.
sd_event_new(child, notify) ==
    [sources |-> Put(Put(EmptyMap, 1, [kind |-> "child", priority |-> child, fd |-> -1]),
                     2, [kind |-> "notify", priority |-> notify, fd |-> -1]),
     pending |-> {}]

\* elogind_manager_new: the fields elogind adds to the Manager.  is_system
\* depends on the build (SYSTEMD_CGROUP_CONTROLLER); sockets are the sockets
\* the process holds open.
elogind_manager_new(mm, is_system, event) ==
    [cgroups_agent_fd |-> -1, test_run |-> FALSE, is_system |-> is_system,
     cgroups_agent_event_source |-> NULL, event |-> event, sockets |-> {}] @@ mm

\* sd_event_source_unref of the only reference: the source leaves the loop;
\* unref of NULL does nothing.  The result is NULL.
sd_event_source_unref(mm, source) ==
    IF source = NULL THEN mm
    ELSE [mm EXCEPT !.event.sources = Drop(@, source),
                    !.event.pending = @ \ {source}]

\* socket(): the lowest free descriptor.
socket(mm) ==
    CHOOSE f \in 3..(4 + Cardinality(mm.sockets) + Cardinality(OpenFds(mm))) :
        /\ f \notin mm.sockets \cup OpenFds(mm)
        /\ \A g \in 3..(f - 1) : g \in mm.sockets \cup OpenFds(mm)

\* sd_event_add_io: a new source for fd, at the default priority.
sd_event_add_io(mm, fd) ==
    LET a == CHOOSE x \in 1..(Cardinality(DOMAIN mm.event.sources) + 1) :
                x \notin DOMAIN mm.event.sources
    IN  [m |-> [mm EXCEPT !.event.sources =
                   Put(@, a, [kind |-> "cgroups-agent",
                              priority |-> SD_EVENT_PRIORITY_NORMAL, fd |-> fd])],
         out |-> a]

sd_event_source_set_priority(mm, source, priority) ==
    [mm EXCEPT !.event.sources[source].priority = priority]

\* The socket part without the close of a socket that could not be bound.
setup_agent_socket_leak(mm, env) ==
    LET m1 == [sd_event_source_unref(mm, mm.cgroups_agent_event_source)
                  EXCEPT !.cgroups_agent_event_source = NULL]
    IN  IF env.socket_errno # 0
        THEN [m |-> m1, r |-> -env.socket_errno, line |-> 184]
        ELSE LET fd == socket(m1)
                 m2 == [m1 EXCEPT !.sockets = @ \cup {fd}]
             IN  IF env.bind_errno # 0
                 THEN [m |-> m2, r |-> -env.bind_errno, line |-> 194]
                 ELSE [m |-> [m2 EXCEPT !.cgroups_agent_fd = fd], r |-> 0, line |-> 0]

\* The part run when the Manager has no agent socket: drop the event source,
\* create the socket, bind it; the socket is closed when bind fails.
setup_agent_socket(mm, env) ==
    LET m1 == [sd_event_source_unref(mm, mm.cgroups_agent_event_source)
                  EXCEPT !.cgroups_agent_event_source = NULL]
    IN  IF env.socket_errno # 0
        THEN [m |-> m1, r |-> -env.socket_errno, line |-> 184]
        ELSE LET fd == socket(m1)
                 m2 == [m1 EXCEPT !.sockets = @ \cup {fd}]
             IN  IF env.bind_errno # 0
                 THEN [m |-> [m2 EXCEPT !.sockets = @ \ {fd}],
                       r |-> -env.bind_errno, line |-> 194]
                 ELSE [m |-> [m2 EXCEPT !.cgroups_agent_fd = fd], r |-> 0, line |-> 0]

\* The part run when the Manager has no agent event source.
setup_agent_event_source(mm, env) ==
    IF env.add_io < 0
    THEN [m |-> mm, r |-> env.add_io, line |-> 203]
    ELSE LET io == sd_event_add_io(mm, mm.cgroups_agent_fd)
             m1 == [io.m EXCEPT !.cgroups_agent_event_source = io.out]
         IN  IF env.set_priority < 0
             THEN [m |-> m1, r |-> env.set_priority, line |-> 211]
             ELSE [m |-> sd_event_source_set_priority(m1, io.out,
                                                      cgroups_agent_priority),
                   r |-> 0, line |-> 216]

\* env: the result of cg_unified_controller, the errno of socket and of bind
\* (0 when they succeed), the results of sd_event_add_io and of
\* sd_event_source_set_priority.
elogind_setup_cgroups_agent(mm, env) ==
    IF mm.test_run THEN [m |-> mm, r |-> 0, line |-> 165]
    ELSE IF ~mm.is_system THEN [m |-> mm, r |-> 0, line |-> 168]
    ELSE IF env.unified < 0 THEN [m |-> mm, r |-> env.unified, line |-> 172]
    ELSE IF env.unified > 0 THEN [m |-> mm, r |-> 0, line |-> 174]
    ELSE LET so == IF mm.cgroups_agent_fd < 0
                   THEN setup_agent_socket(mm, env)
                   ELSE [m |-> mm, r |-> 0, line |-> 0]
         IN  IF so.r < 0 THEN so
             ELSE IF so.m.cgroups_agent_event_source = NULL
                  THEN setup_agent_event_source(so.m, env)
                  ELSE [m |-> so.m, r |-> 0, line |-> 216]

\* One iteration of the event loop dispatches one pending source: one of
\* those with the numerically lowest priority.
sd_event_next(event) ==
    {a \in event.pending :
        \A b \in event.pending :
            event.sources[a].priority <= event.sources[b].priority}

----------------------------------------------------------------------------
(* Daemonizing *)

\* The processes of the double fork.
Procs == {"original", "child", "grandchild"}

\* A process: pc is where it is ("none" before it exists, "main" outside
\* elogind_daemonize, "fork", "wait", "setsid", "fork2", "pidfile" inside,
\* "returned" after the return, "exited" and "killed" when terminated), pid
\* its process id, r the value elogind_daemonize returned to it.
NoProc == [pc |-> "none", pid |-> 0, r |-> 0]

\* The daemon as started: one process, in main.
ProcsInit ==
    [p \in Procs |-> IF p = "original" THEN [pc |-> "main", pid |-> 1, r |-> 0]
                                         ELSE NoProc]

Returned(ps, p, r) == [ps EXCEPT ![p].pc = "returned", ![p].r = r]

\* fork in process p creating process q: errno # 0 when it fails, else pid
\* is the new process, which continues at pc.
daemonize_fork(ps, p, q, errno, pid, pc) ==
    IF errno # 0
    THEN Returned(ps, p, -errno)
    ELSE [ps EXCEPT ![q] = [pc |-> pc, pid |-> pid, r |-> 0]]

\* The original process returning the child's PID without waiting for it.
daemonize_parent_nowait(ps, errno, pid) ==
    LET f == daemonize_fork(ps, "original", "child", errno, pid, "setsid")
    IN  IF errno # 0 THEN f ELSE Returned(f, "original", pid)

\* child = fork() in the original process; with a child it goes on to wait.
daemonize_parent(ps, errno, pid) ==
    LET f == daemonize_fork(ps, "original", "child", errno, pid, "setsid")
    IN  IF errno # 0 THEN f ELSE [f EXCEPT !["original"].pc = "wait"]

\* wait_for_terminate_and_warn returns once the child has terminated: the
\* exit status of a child that exited, a negative error for a child that
\* was killed by a signal or when waiting fails (werr # 0).
wait_for_terminate_and_warn(ps, werr) ==
    IF werr # 0 THEN -werr
    ELSE IF ps["child"].pc = "killed" THEN -EPROTO
    ELSE IF ps["child"].r < 0 THEN 1 ELSE 0

\* The original process after the wait.
daemonize_waited(ps, werr) ==
    LET r == wait_for_terminate_and_warn(ps, werr)
    IN  IF r < 0 THEN Returned(ps, "original", r)
        ELSE Returned(ps, "original", ps["child"].pid)

\* setsid in the first child.
daemonize_setsid(ps, errno) ==
    IF errno # 0 THEN Returned(ps, "child", -errno)
    ELSE [ps EXCEPT !["child"].pc = "fork2"]

\* grandchild = fork() in the first child, which returns at once.
daemonize_child(ps, errno, pid) ==
    LET f == daemonize_fork(ps, "child", "grandchild", errno, pid, "pidfile")
    IN  IF errno # 0 THEN f ELSE Returned(f, "child", pid)

\* The grandchild writes the PID file (a failure is only logged) and
\* returns 0.
daemonize_grandchild(ps, werr) == Returned(ps, "grandchild", 0)

----------------------------------------------------------------------------
(* The daemon: hot-plug events and GC sweeps *)

\* The code tells "remove" from every other action.
Actions == {"add", "remove"}

PropertySets == {EmptyMap} \cup {[k \in {"ID_SEAT"} |-> v] : v \in IdSeatValues}

TagSets == {{}, {"master-of-seat"}}

SeatDeviceEvents ==
    [action : Actions, syspath : Syspaths, properties : PropertySets, tags : TagSets]

\* The allocations a call on event d can reach; a remove event allocates
\* nothing.
OomInputs(d) == IF d.action = "remove" THEN {"none"} ELSE {"none", "device", "seat"}

\* The state after manager_new: empty registries, empty GC queue.
Init ==
    /\ m = manager_new
    /\ call = [op |-> "manager_new"]
    /\ ret = 0
    /\ out = NULL
    /\ line = 0
    /\ procs = ProcsInit

ProcessSeatDevice ==
    \E d \in SeatDeviceEvents : \E oom \in OomInputs(d) :
        \E res \in {manager_process_seat_device(m, d, oom)} :
            /\ m' = res.m
            /\ call' = [op |-> "manager_process_seat_device", d |-> d]
            /\ ret' = res.r
            /\ out' = NULL
            /\ line' = res.line
            /\ procs' = procs

\* A sweep works off the queue it finds, recorded as the call's argument.
ManagerGC ==
    /\ m' = manager_gc(m)
    /\ call' = [op |-> "manager_gc", queue |-> m.seat_gc_queue]
    /\ ret' = 0
    /\ out' = NULL
    /\ line' = 0
    /\ procs' = procs

Next == ProcessSeatDevice \/ ManagerGC

Spec == Init /\ [][Next]_vars

----------------------------------------------------------------------------
(* Callers of the registry API *)

SeatIds == {Str_seat0, Str_seat1}
Uids == {0, 1000, 1001}

Kinds == {"devices", "seats", "sessions", "users", "inhibitors", "buttons"}

KeysOf(kind) ==
    CASE kind = "devices" -> Syspaths
      [] kind = "seats" -> SeatIds
      [] kind = "sessions" -> SessionIds
      [] kind = "users" -> Uids
      [] kind = "inhibitors" -> InhibitorIds
      [] kind = "buttons" -> Sysnames

\* The effect of a call that returns res and takes no line label.
Returns(c, result) ==
    \E res \in {result} :
        /\ m' = res.m
        /\ call' = c
        /\ ret' = res.r
        /\ out' = res.out
        /\ line' = 0
        /\ procs' = procs

AddDevice ==
    \E sysfs \in Syspaths, master \in BOOLEAN, oom \in BOOLEAN :
        Returns([op |-> "manager_add_device", kind |-> "devices", key |-> sysfs,
                 master |-> master],
                manager_add_device(m, sysfs, master, oom))

AddSeat ==
    \E id \in SeatIds, oom \in BOOLEAN :
        Returns([op |-> "manager_add_seat", kind |-> "seats", key |-> id],
                manager_add_seat(m, id, oom))

AddSession ==
    \E id \in SessionIds, oom \in BOOLEAN :
        Returns([op |-> "manager_add_session", kind |-> "sessions", key |-> id],
                manager_add_session(m, id, oom))

\* Callers pass the credentials of one of the host's accounts.
AddUser ==
    \E uid \in Uids, cred \in Passwd, oom \in BOOLEAN :
        Returns([op |-> "manager_add_user", kind |-> "users", key |-> uid,
                 gid |-> cred.pw_gid, name |-> cred.pw_name],
                manager_add_user(m, uid, cred.pw_gid, cred.pw_name, oom))

AddUserByUid ==
    \E uid \in Uids, env \in {"ok", "EIO"}, oom \in BOOLEAN :
        Returns([op |-> "manager_add_user_by_uid", kind |-> "users", key |-> uid,
                 env |-> env],
                manager_add_user_by_uid(m, uid, env, oom))

AddInhibitor ==
    \E id \in InhibitorIds, oom \in BOOLEAN :
        Returns([op |-> "manager_add_inhibitor", kind |-> "inhibitors", key |-> id],
                manager_add_inhibitor(m, id, oom))

AddButton ==
    \E name \in Sysnames, oom \in BOOLEAN :
        Returns([op |-> "manager_add_button", kind |-> "buttons", key |-> name],
                manager_add_button(m, name, oom))

\* The daemon's events together with direct manager_add_device calls.
NextDev == ProcessSeatDevice \/ ManagerGC \/ AddDevice

SpecDev == Init /\ [][NextDev]_vars

\* Any sequence of registry add calls.
NextReg ==
    \/ AddDevice
    \/ AddSeat
    \/ AddSession
    \/ AddUser
    \/ AddUserByUid
    \/ AddInhibitor
    \/ AddButton

SpecReg == Init /\ [][NextReg]_vars

----------------------------------------------------------------------------
(* Callers of the inhibitor engine *)

\* The monotonic clock reads at most MaxTime when an inhibitor is started.
MaxTime == 2

WhatValues == {INHIBIT_SHUTDOWN \cup INHIBIT_SLEEP, INHIBIT_IDLE}
QueryWhats == {INHIBIT_SHUTDOWN, INHIBIT_SLEEP, INHIBIT_IDLE}
Modes == {INHIBIT_BLOCK, INHIBIT_DELAY}

\* The bus peers that take inhibitors, with their credentials.
Peers == {[pid |-> 1, uid |-> 0], [pid |-> 2, uid |-> 1000]}

\* A classifier that finds no session for any process, and the classifiers
\* the queries meet: no session, every process in c1, process 1 in c1 and
\* process 2 in c2.
NoCgroups == [p \in Pids |-> CG_FAIL]
QueryEnvs ==
    {NoCgroups, [p \in Pids |-> "c1"],
     [p \in Pids |-> IF p = 1 THEN "c1" ELSE "c2"]}

\* The daemon with no session, or with the session c1 of alice.
InitInh ==
    /\ m \in {manager_new,
              create_session(manager_new, "c1", 1000, NULL, "none").m}
    /\ call = [op |-> "manager_new"]
    /\ ret = 0
    /\ out = NULL
    /\ line = 0
    /\ procs = ProcsInit

\* The effect of an operation that returns nothing.
Does(c, mm) ==
    /\ m' = mm
    /\ call' = c
    /\ ret' = 0
    /\ out' = NULL
    /\ line' = 0
    /\ procs' = procs

\* Time passes between the events of the daemon.
InhibitorStart ==
    \E id \in DOMAIN m.inhibitors, what \in WhatValues, mode \in Modes,
       peer \in Peers :
        /\ ~m.inhibitors[id].started
        /\ m.monotonic <= MaxTime
        /\ Does([op |-> "inhibitor_start", key |-> id],
                [inhibitor_start(m, id, what, mode, peer.uid, peer.pid)
                    EXCEPT !.monotonic = @ + 1])

InhibitorFree ==
    \E id \in DOMAIN m.inhibitors :
        Does([op |-> "inhibitor_free", key |-> id], inhibitor_free(m, id))

SessionTransition ==
    \E id \in DOMAIN m.sessions :
        \E st \in SessionSuccessors(m.sessions[id].state) :
            Does([op |-> "session_set_state", key |-> id],
                 [m EXCEPT !.sessions[id].state = st])

\* The classifier matters to a query only when it ignores inactive sessions.
IsInhibited ==
    \E w \in QueryWhats, mode \in Modes, ignore_inactive \in BOOLEAN,
       for_uid \in {UID_INVALID, 1000} :
        \E cg \in IF ignore_inactive THEN QueryEnvs ELSE {NoCgroups} :
            \E res \in {manager_is_inhibited(m, w, mode, ignore_inactive,
                                             for_uid, cg)} :
                /\ m' = m
                /\ call' = [op |-> "manager_is_inhibited", w |-> w, mode |-> mode,
                            ignore_inactive |-> ignore_inactive,
                            for_uid |-> for_uid, cg |-> cg]
                /\ ret' = IF res.r THEN 1 ELSE 0
                /\ out' = res.since
                /\ line' = 0
                /\ procs' = procs

NextInh ==
    \/ AddInhibitor
    \/ InhibitorStart
    \/ InhibitorFree
    \/ SessionTransition
    \/ IsInhibited

SpecInh == InitInh /\ [][NextInh]_vars

----------------------------------------------------------------------------
(* Callers of the session API *)

PidInputs == {-1, 0} \cup Pids

\* The seats a new session can be bound to: none, or a seat of the registry.
SeatChoices(mm) == {NULL} \cup {mm.seats[k].ptr : k \in DOMAIN mm.seats}

\* The bus call add_session makes the session under an id that is not in
\* use, for a user of the host.
CreateSession ==
    \E id \in SessionIds \ DOMAIN m.sessions, cred \in Passwd,
       seat \in SeatChoices(m), oom \in {"none", "user", "session"} :
        Returns([op |-> "create_session", kind |-> "sessions", key |-> id,
                 uid |-> cred.pw_uid],
                create_session(m, id, cred.pw_uid, seat, oom))

SessionRelease ==
    \E id \in DOMAIN m.sessions :
        Does([op |-> "session_free", key |-> id],
             session_free(m, m.sessions[id].ptr))

\* The classifier's answer matters only for a pid the function accepts.
PidEnvs(pid) ==
    IF pid < 1 THEN {NoCgroups}
    ELSE {[p \in Pids |-> ans] : ans \in SessionIds \cup {CG_FAIL}}

\* A lookup: the Manager is not an output of the function.
Looks(c, result) ==
    \E res \in {result} :
        /\ m' = m
        /\ call' = c
        /\ ret' = res.r
        /\ out' = res.out
        /\ line' = 0
        /\ procs' = procs

GetSessionByPid ==
    \E pid \in PidInputs : \E cg \in PidEnvs(pid) :
        Looks([op |-> "manager_get_session_by_pid", pid |-> pid, cg |-> cg],
              manager_get_session_by_pid(m, pid, cg, UNSET))

GetUserByPid ==
    \E pid \in PidInputs : \E cg \in PidEnvs(pid) :
        Looks([op |-> "manager_get_user_by_pid", pid |-> pid, cg |-> cg],
              manager_get_user_by_pid(m, pid, cg, UNSET))

NextSes ==
    \/ AddSeat
    \/ AddSession
    \/ CreateSession
    \/ SessionRelease
    \/ ManagerGC
    \/ GetSessionByPid
    \/ GetUserByPid

SpecSes == Init /\ [][NextSes]_vars

----------------------------------------------------------------------------
(* Callers of the bus-name watch set *)

Busnames == {":1.42", ":1.43"}

WatchFailures == {"none", "strdup", "set_put"}

WatchBusname ==
    \E name \in Busnames, fail \in WatchFailures :
        \E res \in {manager_watch_busname(m, name, fail)} :
            /\ m' = res.m
            /\ call' = [op |-> "manager_watch_busname", name |-> name, fail |-> fail]
            /\ ret' = res.r
            /\ out' = NULL
            /\ line' = 0
            /\ procs' = procs

DropBusname ==
    \E name \in Busnames :
        \E res \in {manager_drop_busname(m, name)} :
            /\ m' = res.m
            /\ call' = [op |-> "manager_drop_busname", name |-> name]
            /\ ret' = 0
            /\ out' = res.out
            /\ line' = res.line
            /\ procs' = procs

\* A bus peer takes control of a session that has no controller.
SessionSetController ==
    \E id \in DOMAIN m.sessions, name \in Busnames, fail \in WatchFailures :
        /\ m.sessions[id].controller = NULL_NAME
        /\ \E res \in {session_set_controller(m, m.sessions[id].ptr, name, fail)} :
              /\ m' = res.m
              /\ call' = [op |-> "session_set_controller", key |-> id, name |-> name]
              /\ ret' = res.r
              /\ out' = NULL
              /\ line' = 0
              /\ procs' = procs

NextBus ==
    \/ CreateSession
    \/ SessionSetController
    \/ SessionRelease
    \/ WatchBusname
    \/ DropBusname

SpecBus == Init /\ [][NextBus]_vars

----------------------------------------------------------------------------
(* Callers of the kill policy *)

UserNames == {"root", "alice", "bob"}

\* The daemon after its configuration was read: KillUserProcesses,
\* KillExcludeUsers and KillOnlyUsers take any value.
InitKill ==
    /\ \E kill \in BOOLEAN, exclude \in SUBSET UserNames, only \in SUBSET UserNames :
          m = [manager_new EXCEPT !.kill_user_processes = kill,
                                  !.kill_exclude_users = exclude,
                                  !.kill_only_users = only]
    /\ call = [op |-> "manager_new"]
    /\ ret = 0
    /\ out = NULL
    /\ line = 0
    /\ procs = ProcsInit

ShallKill ==
    \E user \in UserNames :
        /\ m' = m
        /\ call' = [op |-> "manager_shall_kill", user |-> user]
        /\ ret' = IF manager_shall_kill(m, user) THEN 1 ELSE 0
        /\ out' = NULL
        /\ line' = 0
        /\ procs' = procs

NextKill == ShallKill

SpecKill == InitKill /\ [][NextKill]_vars

----------------------------------------------------------------------------
(* Callers of the idle hint *)

\* The times at which sessions made their idle reports.
IdleTimes == {10, 15, 20}

IdleReports == [idle : BOOLEAN, t : IdleTimes]

\* The sessions ids of one user, created by add_session, with the idle
\* reports rep.
RECURSIVE with_sessions(_, _, _)
with_sessions(mm, ids, rep) ==
    IF ids = {} THEN mm
    ELSE LET id == CHOOSE x \in ids : TRUE
             c == create_session(mm, id, 1000, NULL, "none")
         IN  with_sessions(session_set_idle_hint(c.m, id, rep[id].idle, rep[id].t),
                           ids \ {id}, rep)

\* An inhibitor of the category what, in block mode, taken at time 5 by
\* process 1 of root.
with_inhibitor(mm, what) ==
    [inhibitor_start([manager_add_inhibitor(mm, "1", FALSE).m EXCEPT !.monotonic = 5],
                     "1", what, INHIBIT_BLOCK, 0, 1)
        EXCEPT !.monotonic = 21]

\* The inhibitors of a daemon whose idle hint is asked for: none, one that
\* blocks idle, one that blocks sleep.
IdleInhibitors == {{}, INHIBIT_IDLE, INHIBIT_SLEEP}

\* The daemon with some sessions of alice that made idle reports, and
\* possibly an inhibitor, as far as the heap holds them.
InitIdle ==
    /\ \E ids \in SUBSET SessionIds, what \in IdleInhibitors :
          /\ Cardinality(ids) + (IF ids = {} THEN 0 ELSE 1)
                + (IF what = {} THEN 0 ELSE 1) <= MaxRecords
          /\ \E rep \in [ids -> IdleReports] :
                m = IF what = {}
                    THEN with_sessions([manager_new EXCEPT !.monotonic = 21], ids, rep)
                    ELSE with_sessions(with_inhibitor(manager_new, what), ids, rep)
    /\ call = [op |-> "manager_new"]
    /\ ret = 0
    /\ out = NULL
    /\ line = 0
    /\ procs = ProcsInit

\* The orders in which a hashmap iterates over the keys K.
Orders(K) ==
    {o \in [1..Cardinality(K) -> K] : \A i, j \in 1..Cardinality(K) :
                                          o[i] = o[j] => i = j}

GetIdleHint ==
    \E order \in Orders(DOMAIN m.sessions) :
        \E res \in {manager_get_idle_hint(m, order)} :
            /\ m' = m
            /\ call' = [op |-> "manager_get_idle_hint", order |-> order]
            /\ ret' = res.r
            /\ out' = res.t
            /\ line' = 0
            /\ procs' = procs

NextIdle == GetIdleHint

SpecIdle == InitIdle /\ [][NextIdle]_vars

----------------------------------------------------------------------------
(* Callers of the button handler *)

ButtonDeviceEvents == [action : Actions, sysname : Sysnames, properties : PropertySets]

ProcessButtonDevice ==
    \E d \in ButtonDeviceEvents, oom \in BOOLEAN :
        \E res \in {manager_process_button_device(m, d, oom)} :
            /\ m' = res.m
            /\ call' = [op |-> "manager_process_button_device", d |-> d]
            /\ ret' = res.r
            /\ out' = NULL
            /\ line' = res.line
            /\ procs' = procs

\* The evdev source of an open button delivers a switch event.
ButtonSwitches ==
    \E k \in DOMAIN m.buttons, docked \in BOOLEAN, lid_closed \in BOOLEAN :
        /\ m.buttons[k].fd # -1
        /\ m' = button_set_switches(m, m.buttons[k].ptr, docked, lid_closed)
        /\ call' = [op |-> "button_dispatch", sysname |-> k]
        /\ ret' = 0
        /\ out' = NULL
        /\ line' = 0
        /\ procs' = procs

NextBtn == ProcessButtonDevice \/ ButtonSwitches

SpecBtn == Init /\ [][NextBtn]_vars

----------------------------------------------------------------------------
(* Callers of the display heuristic *)

\* The longest list of drm devices an enumeration returns.
MaxDisplays == 2

DrmParents == {"none", NULL_NAME, "pci", "drm"}

DrmStatuses == {NULL_NAME, "connected", "disconnected", "unknown"}

\* A device whose status is never read is listed once.
DrmItems ==
    [created : {TRUE}, parent : {"drm"}, status : DrmStatuses]
    \cup [created : {TRUE}, parent : DrmParents \ {"drm"}, status : {"connected"}]
    \cup [created : {FALSE}, parent : {"drm"}, status : {"connected"}]

DrmLists == UNION {[1..n -> DrmItems] : n \in 0..MaxDisplays}

DrmEnvs ==
    [enumerate : {"ok", "new"}, err : {0}, items : DrmLists]
    \cup [enumerate : {"match", "scan"}, err : {-ENOMEM, -EIO}, items : DrmLists]

\* The buttons names, added by button events on seat0, those in docked
\* reporting a dock.
RECURSIVE with_buttons(_, _, _)
with_buttons(mm, names, docked) ==
    IF names = {} THEN mm
    ELSE LET n == CHOOSE x \in names : TRUE
             d == [action |-> "add", sysname |-> n, properties |-> EmptyMap]
             m1 == manager_process_button_device(mm, d, FALSE).m
         IN  with_buttons(button_set_switches(m1, hashmap_get(m1.buttons, n),
                                              n \in docked, FALSE),
                          names \ {n}, docked)

\* The daemon with some buttons, some of them docked, and a udev context.
InitDock ==
    /\ \E names \in SUBSET Sysnames, env \in DrmEnvs : \E docked \in SUBSET names :
          m = [with_buttons(manager_new, names, docked) EXCEPT !.udev = env]
    /\ call = [op |-> "manager_new"]
    /\ ret = 0
    /\ out = NULL
    /\ line = 0
    /\ procs = ProcsInit

CountDisplays ==
    /\ m' = m
    /\ call' = [op |-> "manager_count_displays"]
    /\ ret' = manager_count_displays(m)
    /\ out' = NULL
    /\ line' = 0
    /\ procs' = procs

IsDockedOrMultipleDisplays ==
    \E res \in {manager_is_docked_or_multiple_displays(m)} :
        /\ m' = m
        /\ call' = [op |-> "manager_is_docked_or_multiple_displays"]
        /\ ret' = IF res.r THEN 1 ELSE 0
        /\ out' = NULL
        /\ line' = res.line
        /\ procs' = procs

NextDock == CountDisplays \/ IsDockedOrMultipleDisplays

SpecDock == InitDock /\ [][NextDock]_vars

----------------------------------------------------------------------------
(* Callers of the VT probe *)

\* The highest VT number asked about (the kernel has up to 63 consoles).
MaxVt == 34

\* In-use masks: none, the example 0b0000_1010, each single VT, all.
VStates == {0, 10, 65535} \cup {2 ^ k : k \in 0..(VStateWidth - 1)}

VtEnvs ==
    [open : {0}, ioctl : {0}, v_state : VStates]
    \cup [open : {ENOENT, EIO}, ioctl : {0}, v_state : {0}]
    \cup [open : {0}, ioctl : {EIO, EINVAL}, v_state : {0}]

VtIsBusy ==
    \E vtnr \in 1..MaxVt, env \in VtEnvs :
        \E mask \in vt_shift(vtnr) :
            /\ m' = m
            /\ call' = [op |-> "vt_is_busy", vtnr |-> vtnr, env |-> env]
            /\ ret' = vt_is_busy(vtnr, env, mask)
            /\ out' = NULL
            /\ line' = 0
            /\ procs' = procs

NextVt == VtIsBusy

SpecVt == Init /\ [][NextVt]_vars

----------------------------------------------------------------------------
(* Callers of the cgroups agent dispatcher *)

\* The notifications the daemon receives at most.
MaxNotified == 2

\* The bytes of a datagram: NUL and "/".
Bytes == {0, 47}

Datagrams == UNION {[1..n -> Bytes] : n \in 0..(PATH_MAX + 2)}

RecvEnvs ==
    [errno : {0}, msg : Datagrams] \cup [errno : {EIO, ENOMEM}, msg : {<<>>}]

DispatchCgroupsAgentFd ==
    \E env \in RecvEnvs :
        \E res \in {manager_dispatch_cgroups_agent_fd(m, env)} :
            /\ Len(res.m.cgroup_empty) <= MaxNotified
            /\ m' = res.m
            /\ call' = [op |-> "manager_dispatch_cgroups_agent_fd", env |-> env]
            /\ ret' = res.r
            /\ out' = NULL
            /\ line' = res.line
            /\ procs' = procs

NextAgent == DispatchCgroupsAgentFd

SpecAgent == Init /\ [][NextAgent]_vars

----------------------------------------------------------------------------
(* Callers of elogind_daemonize *)

\* The process ids fork hands out.
DaemonPids == {2, 3}

ForkErrnos == {0, ENOMEM}

\* main calls elogind_daemonize.
InitDaemon ==
    /\ m = manager_new
    /\ call = [op |-> "main"]
    /\ ret = 0
    /\ out = NULL
    /\ line = 0
    /\ procs = [ProcsInit EXCEPT !["original"].pc = "fork"]

UsedPids(ps) == {ps[p].pid : p \in Procs}

\* A step of process p in elogind_daemonize that leaves the table ps.
DaemonStep(p, step, ps, l) ==
    /\ procs' = ps
    /\ m' = m
    /\ call' = [op |-> "elogind_daemonize", proc |-> p, step |-> step]
    /\ ret' = ps[p].r
    /\ out' = NULL
    /\ line' = l

DaemonFork ==
    /\ procs["original"].pc = "fork"
    /\ \E errno \in ForkErrnos, pid \in DaemonPids \ UsedPids(procs) :
          DaemonStep("original", "fork", daemonize_parent(procs, errno, pid),
                     IF errno # 0 THEN 61 ELSE 66)

DaemonWait ==
    /\ procs["original"].pc = "wait"
    /\ procs["child"].pc \in {"exited", "killed"}
    /\ \E werr \in {0, ECHILD} :
          DaemonStep("original", "wait", daemonize_waited(procs, werr),
                     IF wait_for_terminate_and_warn(procs, werr) < 0 THEN 68 ELSE 69)

DaemonSetsid ==
    /\ procs["child"].pc = "setsid"
    /\ \E errno \in {0, EIO} :
          DaemonStep("child", "setsid", daemonize_setsid(procs, errno),
                     IF errno # 0 THEN 76 ELSE 80)

DaemonFork2 ==
    /\ procs["child"].pc = "fork2"
    /\ \E errno \in ForkErrnos, pid \in DaemonPids \ UsedPids(procs) :
          DaemonStep("child", "fork2", daemonize_child(procs, errno, pid),
                     IF errno # 0 THEN 83 ELSE 87)

DaemonPidFile ==
    /\ procs["grandchild"].pc = "pidfile"
    /\ \E werr \in {0, EIO} :
          DaemonStep("grandchild", "pidfile", daemonize_grandchild(procs, werr), 109)

\* main of a process that elogind_daemonize returned a nonzero value to
\* exits.
DaemonExit ==
    \E p \in Procs :
        /\ procs[p].pc = "returned"
        /\ procs[p].r # 0
        /\ DaemonStep(p, "exit", [procs EXCEPT ![p].pc = "exited"], 0)

\* A signal kills the first child.
DaemonKilled ==
    /\ procs["child"].pc \in {"setsid", "fork2", "returned"}
    /\ DaemonStep("child", "killed", [procs EXCEPT !["child"].pc = "killed"], 0)

\* The udev monitors of the daemon deliver seat-device and button-device
\* events to the two handlers.
NextHotplug == ProcessSeatDevice \/ ProcessButtonDevice

SpecHotplug == Init /\ [][NextHotplug]_vars

----------------------------------------------------------------------------
(* Callers of elogind_setup_cgroups_agent, and the event loop *)

\* The call returns at the first step that fails, so at most one step fails
\* in an environment.
SetupEnvs ==
    {env \in [unified : {-EIO, 0, 1}, socket_errno : {0, ENOMEM},
              bind_errno : {0, EINVAL}, add_io : {0, -ENOMEM},
              set_priority : {0, -ENOMEM}] :
        Cardinality({f \in DOMAIN env : env[f] # 0}) <= 1}

\* The Manager after manager_new and elogind_manager_new, with the
\* child-death source and the service-notification source in its loop;
\* test_run is set by a test run before the bus is connected.
InitSetup ==
    /\ \E is_system \in BOOLEAN, test_run \in BOOLEAN :
       \E child \in EarlierPriorities, notify \in EarlierPriorities :
          m = [elogind_manager_new(manager_new, is_system,
                                   sd_event_new(child, notify))
                  EXCEPT !.test_run = test_run]
    /\ call = [op |-> "manager_new"]
    /\ ret = 0
    /\ out = NULL
    /\ line = 0
    /\ procs = ProcsInit

\* manager_connect_bus calls elogind_setup_cgroups_agent, at start and on
\* every reconnect.
SetupCgroupsAgent ==
    \E env \in SetupEnvs :
        \E res \in {elogind_setup_cgroups_agent(m, env)} :
            /\ m' = res.m
            /\ call' = [op |-> "elogind_setup_cgroups_agent", env |-> env]
            /\ ret' = res.r
            /\ out' = NULL
            /\ line' = res.line
            /\ procs' = procs

\* The kernel reports a child's death, a notification message or an agent
\* datagram: the source becomes pending.
SourcePending ==
    \E a \in DOMAIN m.event.sources \ m.event.pending :
        /\ m' = [m EXCEPT !.event.pending = @ \cup {a}]
        /\ call' = [op |-> "epoll_wait", source |-> a]
        /\ ret' = 0
        /\ out' = NULL
        /\ line' = 0
        /\ procs' = procs

\* The datagrams the agent sends in this loop.
AgentRecvEnvs == {env \in RecvEnvs : Len(env.msg) <= 1}

\* One iteration of the loop: the source to dispatch leaves the pending set
\* and its handler runs; the handler of the agent's source is
\* manager_dispatch_cgroups_agent_fd.  The call records the kinds of the
\* sources that were pending in the iteration.
EventLoopRun ==
    \E a \in sd_event_next(m.event), env \in AgentRecvEnvs :
        LET kind == m.event.sources[a].kind
            m1 == [m EXCEPT !.event.pending = @ \ {a}]
        IN  /\ kind # "cgroups-agent" => env = [errno |-> 0, msg |-> <<>>]
            /\ \E res \in {IF kind = "cgroups-agent"
                           THEN manager_dispatch_cgroups_agent_fd(m1, env)
                           ELSE [m |-> m1, r |-> 0, line |-> 0]} :
                  /\ Len(res.m.cgroup_empty) <= MaxNotified
                  /\ m' = res.m
                  /\ call' = [op |-> "sd_event_run", kind |-> kind,
                              pending |-> {m.event.sources[b].kind :
                                              b \in m.event.pending}]
                  /\ ret' = res.r
                  /\ out' = NULL
                  /\ line' = res.line
                  /\ procs' = procs

NextSetup == SetupCgroupsAgent \/ SourcePending \/ EventLoopRun

SpecSetup == InitSetup /\ [][NextSetup]_vars

NextDaemon ==
    \/ DaemonFork
    \/ DaemonWait
    \/ DaemonSetsid
    \/ DaemonFork2
    \/ DaemonPidFile
    \/ DaemonExit
    \/ DaemonKilled

SpecDaemon == InitDaemon /\ [][NextDaemon]_vars

----------------------------------------------------------------------------
(* Properties of manager_process_seat_device *)

IsSeatDeviceCall(c) == c.op = "manager_process_seat_device"

\* The seat id an event names: its ID_SEAT property, seat0 when the
\* property is absent or empty.
ResolvedSeatId(d) ==
    IF "ID_SEAT" \in DOMAIN d.properties /\ d.properties["ID_SEAT"] # <<>>
    THEN d.properties["ID_SEAT"]
    ELSE Str_seat0

HasMasterTag(d) == "master-of-seat" \in d.tags

\* C1: a non-remove event whose resolved seat id is valid, names a seat that
\* is not in the seat registry, and carries no master-of-seat tag returns 0
\* and leaves the device and seat registries as they were, also when a
\* device record for the syspath already exists.
C1_NonMasterUnknownSeatDropped ==
    [][(/\ IsSeatDeviceCall(call')
        /\ call'.d.action # "remove"
        /\ seat_name_is_valid(ResolvedSeatId(call'.d))
        /\ ResolvedSeatId(call'.d) \notin DOMAIN m.seats
        /\ ~HasMasterTag(call'.d))
       => (ret' = 0 /\ m'.devices = m.devices /\ m'.seats = m.seats)]_vars

\* The dropped event arrived for a syspath that has a device record.
C1_Witness ==
    /\ IsSeatDeviceCall(call)
    /\ call.d.action = "add"
    /\ ResolvedSeatId(call.d) = Str_seat1
    /\ Str_seat1 \notin DOMAIN m.seats
    /\ ~HasMasterTag(call.d)
    /\ call.d.syspath \in DOMAIN m.devices
    /\ ret = 0
    /\ line = 258

\* C2: a non-remove event whose seat id fails the seat-name grammar, with or
\* without the master-of-seat tag, returns 0 and mutates nothing.
C2_InvalidSeatNameDropped ==
    [][(/\ IsSeatDeviceCall(call')
        /\ call'.d.action # "remove"
        /\ ~seat_name_is_valid(ResolvedSeatId(call'.d)))
       => (ret' = 0 /\ m' = m)]_vars

\* An event with ID_SEAT="../etc" and the master-of-seat tag was dropped.
C2_Witness ==
    /\ IsSeatDeviceCall(call)
    /\ call.d.action = "add"
    /\ ResolvedSeatId(call.d) = Str_dotdot_etc
    /\ HasMasterTag(call.d)
    /\ ret = 0
    /\ line = 250
    /\ m.devices # EmptyMap

\* C3: after a non-remove event with a valid seat id S and the master-of-seat
\* tag that returned 0 (no allocation failed), seats[S] exists, the device of
\* the syspath exists with master set, is attached to S (its seat pointer is
\* S and S's device list holds it), and S has been started.
C3_MasterDeviceCreatesSeat ==
    (/\ IsSeatDeviceCall(call)
     /\ call.d.action # "remove"
     /\ seat_name_is_valid(ResolvedSeatId(call.d))
     /\ HasMasterTag(call.d)
     /\ ret = 0)
    => LET S == ResolvedSeatId(call.d)
           p == call.d.syspath
       IN  /\ S \in DOMAIN m.seats
           /\ p \in DOMAIN m.devices
           /\ m.devices[p].master
           /\ m.devices[p].seat = m.seats[S].ptr
           /\ InSeq(m.seats[S].devices, m.devices[p].ptr)
           /\ m.seats[S].started

\* A master device event for seat1 was processed and seat1 holds the device.
C3_Witness ==
    /\ IsSeatDeviceCall(call)
    /\ call.d.action = "add"
    /\ ResolvedSeatId(call.d) = Str_seat1
    /\ HasMasterTag(call.d)
    /\ ret = 0
    /\ Str_seat1 \in DOMAIN m.seats
    /\ m.seats[Str_seat1].started
    /\ Len(m.seats[Str_seat1].devices) = 1

\* C4: a remove event for a syspath with no device record changes nothing and
\* returns 0; for a syspath with a record it returns 0, the record is gone,
\* the seat it was attached to no longer lists it, and that seat is in the GC
\* queue.
C4_Remove ==
    [][(IsSeatDeviceCall(call') /\ call'.d.action = "remove")
       => LET p == call'.d.syspath
          IN  /\ ret' = 0
              /\ p \notin DOMAIN m.devices => m' = m
              /\ p \in DOMAIN m.devices =>
                    /\ p \notin DOMAIN m'.devices
                    /\ m.devices[p].seat # NULL =>
                          /\ IsLive(m'.seats, m.devices[p].seat)
                          /\ ~InSeq(SeatRec(m', m.devices[p].seat).devices,
                                    m.devices[p].ptr)
                          /\ m.devices[p].seat \in m'.seat_gc_queue]_vars

\* A device was removed from a seat that keeps another device; the seat is
\* queued for GC.
C4_Witness ==
    /\ IsSeatDeviceCall(call)
    /\ call.d.action = "remove"
    /\ line = 278
    /\ call.d.syspath \notin DOMAIN m.devices
    /\ \E k \in DOMAIN m.seats :
          m.seats[k].ptr \in m.seat_gc_queue /\ Len(m.seats[k].devices) = 1

\* C5: every device in the registry has a null seat pointer or one that refers
\* to a seat in the seat registry whose device list holds the device.
C5_DeviceSeatLinks ==
    \A p \in DOMAIN m.devices :
        \/ m.devices[p].seat = NULL
        \/ /\ IsLive(m.seats, m.devices[p].seat)
           /\ InSeq(SeatRec(m, m.devices[p].seat).devices, m.devices[p].ptr)

\* After a GC sweep that followed hot-plug events, one seat is left and a
\* device is attached to it.
C5_Witness ==
    /\ call.op = "manager_gc"
    /\ Cardinality(DOMAIN m.seats) = 1
    /\ \E p \in DOMAIN m.devices : m.devices[p].seat # NULL
    /\ Cardinality(DOMAIN m.devices) = 2

\* C10: when seat creation fails after the device upsert the error is
\* returned; a device that has no seat (it was created by this event) is
\* freed, so the device and seat registries are as before the event; a device
\* that had a seat from an earlier event is kept, attached to that seat.
C10_Rollback ==
    [][(IsSeatDeviceCall(call') /\ line' = 270)
       => LET p == call'.d.syspath
          IN  /\ ret' = -ENOMEM
              /\ call'.d.action # "remove"
              /\ ResolvedSeatId(call'.d) \notin DOMAIN m.seats
              /\ (p \notin DOMAIN m.devices \/ m.devices[p].seat = NULL) =>
                    /\ m'.devices = m.devices
                    /\ m'.seats = m.seats
              /\ (p \in DOMAIN m.devices /\ m.devices[p].seat # NULL) =>
                    /\ p \in DOMAIN m'.devices
                    /\ m'.devices[p].ptr = m.devices[p].ptr
                    /\ m'.devices[p].seat = m.devices[p].seat
                    /\ IsLive(m'.seats, m.devices[p].seat)
                    /\ InSeq(SeatRec(m', m.devices[p].seat).devices,
                             m.devices[p].ptr)
                    /\ m'.seats = m.seats]_vars

\* Seat creation failed for the event of a new device, which was freed again.
C10_Witness ==
    /\ IsSeatDeviceCall(call)
    /\ line = 270
    /\ ret = -ENOMEM
    /\ call.d.syspath \notin DOMAIN m.devices
    /\ m.devices # EmptyMap

\* Seat creation failed for the event of a device that stays on its old seat.
C10_WitnessKept ==
    /\ IsSeatDeviceCall(call)
    /\ line = 270
    /\ ret = -ENOMEM
    /\ call.d.syspath \in DOMAIN m.devices
    /\ m.devices[call.d.syspath].seat # NULL

MasterDevices(mm, rec) ==
    {i \in 1..Len(rec.devices) : Dev(mm, rec.devices[i]).master}

C32_HotplugIdempotent ==
    [][(/\ IsSeatDeviceCall(call)
        /\ IsSeatDeviceCall(call')
        /\ call'.d = call.d
        /\ ret # -ENOMEM
        /\ ret' # -ENOMEM)
       => /\ m'.devices = m.devices
          /\ m'.seats = m.seats
          /\ ret' = 0]_vars

\* The event of a master device attached to a seat, on which another device
\* follows it in the seat's list: processing the event again changes nothing.
C32_Witness ==
    /\ IsSeatDeviceCall(call)
    /\ call.d.action = "add"
    /\ HasMasterTag(call.d)
    /\ line = 278
    /\ call.d.syspath \in DOMAIN m.devices
    /\ LET S == ResolvedSeatId(call.d)
       IN  /\ S \in DOMAIN m.seats
           /\ Len(m.seats[S].devices) = 2
           /\ m.seats[S].devices[1] = m.devices[call.d.syspath].ptr
    /\ manager_process_seat_device(m, call.d, "none").m = m

\* A remove event was processed for a syspath that has no record (as after
\* the same remove event), while other records exist.
C32_WitnessRemove ==
    /\ IsSeatDeviceCall(call)
    /\ call.d.action = "remove"
    /\ line = 234
    /\ m.seat_gc_queue # {}
    /\ m.devices # EmptyMap

\* C33: after any sequence of seat-device events and sweeps, each device
\* record is on the device list of the seat its seat pointer names, once, and
\* on no other seat's list.
C33_OneSeatPerDevice ==
    \A p \in DOMAIN m.devices :
        /\ m.devices[p].seat # NULL
        /\ \A k \in DOMAIN m.seats :
              LET n == Cardinality({i \in 1..Len(m.seats[k].devices) :
                                       m.seats[k].devices[i] = m.devices[p].ptr})
              IN  IF m.seats[k].ptr = m.devices[p].seat THEN n = 1 ELSE n = 0
        /\ \E k \in DOMAIN m.seats : m.seats[k].ptr = m.devices[p].seat

\* An event without the master tag named seat1, a seat of the registry, for
\* a master device registered by an earlier event; the device is on seat1's
\* list and seat0, left empty, is still in the registry.
C33_Witness ==
    /\ IsSeatDeviceCall(call)
    /\ call.d.action = "add"
    /\ ~HasMasterTag(call.d)
    /\ ResolvedSeatId(call.d) = Str_seat1
    /\ line = 278
    /\ call.d.syspath \in DOMAIN m.devices
    /\ m.devices[call.d.syspath].master
    /\ Str_seat0 \in DOMAIN m.seats
    /\ m.seats[Str_seat0].devices = <<>>
    /\ m.seats[Str_seat0].ptr \in m.seat_gc_queue
    /\ m.seats[Str_seat1].devices = <<m.devices[call.d.syspath].ptr>>

\* A non-remove event without the master-of-seat tag whose valid seat id
\* names a seat of the registry.
IsKnownSeatEvent(mm, c) ==
    /\ IsSeatDeviceCall(c)
    /\ c.d.action # "remove"
    /\ ~HasMasterTag(c.d)
    /\ seat_name_is_valid(ResolvedSeatId(c.d))
    /\ ResolvedSeatId(c.d) \in DOMAIN mm.seats

\* The device of the event is upserted (master=false if new, flag unchanged
\* if known), attached to the event's seat, the seat is started, no seat is
\* created, and 0 is returned.
KnownSeatEventAccepted ==
    LET p == call'.d.syspath
        S == ResolvedSeatId(call'.d)
    IN  /\ ret' = 0
        /\ p \in DOMAIN m'.devices
        /\ m'.devices[p].master = (p \in DOMAIN m.devices /\ m.devices[p].master)
        /\ p \in DOMAIN m.devices => m'.devices[p].ptr = m.devices[p].ptr
        /\ DOMAIN m'.devices = DOMAIN m.devices \cup {p}
        /\ m'.devices[p].seat = m.seats[S].ptr
        /\ InSeq(m'.seats[S].devices, m'.devices[p].ptr)
        /\ m'.seats[S].started
        /\ DOMAIN m'.seats = DOMAIN m.seats
        /\ \A k \in DOMAIN m.seats : m'.seats[k].ptr = m.seats[k].ptr

\* C34 as stated: every non-remove event without the master-of-seat tag whose
\* valid seat id names a seat of the registry is accepted and returns 0.
C34_Original ==
    [][IsKnownSeatEvent(m, call') => KnownSeatEventAccepted]_vars

\* C34 amended: a non-remove event without the master-of-seat tag whose
\* valid seat id names a seat of the registry is accepted (device upserted,
\* created with master=false if new and with its flag unchanged if known,
\* attached to that seat, seat started, no seat created, 0 returned), unless
\* the syspath has no record yet and allocating one fails: then -ENOMEM is
\* returned and nothing changes.
C34_KnownSeatEvent ==
    [][IsKnownSeatEvent(m, call') =>
          \/ KnownSeatEventAccepted
          \/ /\ ret' = -ENOMEM
             /\ line' = 262
             /\ call'.d.syspath \notin DOMAIN m.devices
             /\ m' = m]_vars

\* A new device without the master tag joined seat1, which holds the master
\* device that created it.
C34_Witness ==
    /\ IsKnownSeatEvent(m, call)
    /\ ResolvedSeatId(call.d) = Str_seat1
    /\ line = 278
    /\ ret = 0
    /\ ~m.devices[call.d.syspath].master
    /\ Len(m.seats[Str_seat1].devices) = 2
    /\ m.seats[Str_seat1].devices[2] = m.devices[call.d.syspath].ptr
    /\ m.seats[Str_seat1].started

\* The device record of such an event could not be allocated.
C34_WitnessNoMem ==
    /\ IsKnownSeatEvent(m, call)
    /\ line = 262
    /\ ret = -ENOMEM
    /\ call.d.syspath \notin DOMAIN m.devices

\* C38: a remove event for a syspath that has a device record frees the
\* record and returns 0 whatever its ID_SEAT property and its tags are, and
\* the seat that joins the GC queue is the one the record was attached to,
\* not the one the event names.
C38_RemoveIgnoresSeatId ==
    [][(/\ IsSeatDeviceCall(call')
        /\ call'.d.action = "remove"
        /\ call'.d.syspath \in DOMAIN m.devices)
       => LET p == call'.d.syspath
          IN  /\ ret' = 0
              /\ line' = 278
              /\ m'.devices = Drop(m.devices, p)
              /\ m'.seat_gc_queue = m.seat_gc_queue \cup {m.devices[p].seat}
              /\ DOMAIN m'.seats = DOMAIN m.seats
              /\ \A k \in DOMAIN m.seats :
                    m'.seats[k] = [m.seats[k] EXCEPT
                                      !.devices = RemoveFromSeq(@, m.devices[p].ptr)]]_vars

\* A remove event with an invalid ID_SEAT emptied the device registry and
\* put the device's seat in the GC queue.
C38_Witness ==
    /\ IsSeatDeviceCall(call)
    /\ call.d.action = "remove"
    /\ ~seat_name_is_valid(ResolvedSeatId(call.d))
    /\ line = 278
    /\ m.devices = EmptyMap
    /\ \E k \in DOMAIN m.seats :
          m.seats[k].ptr \in m.seat_gc_queue /\ m.seats[k].devices = <<>>

\* A remove event with the master tag named seat1; the record it freed was
\* attached to seat0, which is in the GC queue, and seat1 is not.
C38_WitnessOtherSeat ==
    /\ IsSeatDeviceCall(call)
    /\ call.d.action = "remove"
    /\ HasMasterTag(call.d)
    /\ ResolvedSeatId(call.d) = Str_seat1
    /\ line = 278
    /\ Str_seat0 \in DOMAIN m.seats
    /\ m.seat_gc_queue = {m.seats[Str_seat0].ptr}
    /\ Str_seat1 \notin DOMAIN m.seats

\* The event d with its ID_SEAT property set to "seat0".
WithSeat0(d) == [d EXCEPT !.properties = [k \in {"ID_SEAT"} |-> Str_seat0]]

\* ID_SEAT is absent from the event d, or empty.
SeatIdMissing(d) ==
    "ID_SEAT" \notin DOMAIN d.properties \/ d.properties["ID_SEAT"] = <<>>

\* The seat-device events and the button-device events without a seat id.
SeatIdMissingEvents(events) == {d \in events : SeatIdMissing(d)}

\* C35: a seat-device or button-device event whose ID_SEAT is absent or empty
\* is handled as the same event with ID_SEAT="seat0": in every state the
\* daemon reaches and for every allocation outcome, the handler gives the
\* same Manager and the same return code for both events; the device of such
\* an event that was accepted is attached to seat0, and the button of such an
\* event is bound to seat0.
C35_MissingSeatIdIsSeat0 ==
    /\ \A d \in SeatIdMissingEvents(SeatDeviceEvents) : \A oom \in OomInputs(d) :
          LET a == manager_process_seat_device(m, d, oom)
              b == manager_process_seat_device(m, WithSeat0(d), oom)
          IN  a.m = b.m /\ a.r = b.r
    /\ \A d \in SeatIdMissingEvents(ButtonDeviceEvents) : \A oom \in BOOLEAN :
          LET a == manager_process_button_device(m, d, oom)
              b == manager_process_button_device(m, WithSeat0(d), oom)
          IN  a.m = b.m /\ a.r = b.r
    /\ (IsSeatDeviceCall(call) /\ SeatIdMissing(call.d) /\ line = 278
        /\ call.d.action # "remove") =>
          /\ Str_seat0 \in DOMAIN m.seats
          /\ m.devices[call.d.syspath].seat = m.seats[Str_seat0].ptr
    /\ (call.op = "manager_process_button_device" /\ SeatIdMissing(call.d)
        /\ line = 311 /\ call.d.action # "remove") =>
          m.buttons[call.d.sysname].seat = Str_seat0

\* A master device event with an empty ID_SEAT created seat0 and attached the
\* device, while a button is in the registry.
C35_Witness ==
    /\ IsSeatDeviceCall(call)
    /\ call.d.action = "add"
    /\ "ID_SEAT" \in DOMAIN call.d.properties
    /\ call.d.properties["ID_SEAT"] = <<>>
    /\ line = 278
    /\ Str_seat0 \in DOMAIN m.seats
    /\ m.devices[call.d.syspath].seat = m.seats[Str_seat0].ptr
    /\ m.buttons # EmptyMap

\* A button event without ID_SEAT bound a button, known from an event for
\* seat1, to seat0.
C35_WitnessButton ==
    /\ call.op = "manager_process_button_device"
    /\ call.d.action = "add"
    /\ call.d.properties = EmptyMap
    /\ line = 311
    /\ m.buttons[call.d.sysname].seat = Str_seat0
    /\ \E k \in DOMAIN m.buttons : m.buttons[k].seat = Str_seat1

----------------------------------------------------------------------------
(* Properties of the inhibitor engine *)

IsQuery(c) == c.op = "manager_is_inhibited"

\* The stored inhibitors that satisfy every filter rule of the query c.
Matching(mm, c) ==
    {k \in DOMAIN mm.inhibitors :
        LET i == mm.inhibitors[k]
        IN  /\ \E b \in i.what : b \in c.w
            /\ i.mode = c.mode
            /\ c.for_uid = UID_INVALID \/ i.uid = c.for_uid
            /\ \/ ~c.ignore_inactive
               \/ /\ i.pid \in Pids
                  /\ c.cg[i.pid] \in DOMAIN mm.sessions
                  /\ mm.sessions[c.cg[i.pid]].state \in {"active", "online"}}

\* t is the minimum since over the inhibitors K.
IsMinSince(mm, K, t) ==
    /\ \E k \in K : mm.inhibitors[k].since = t
    /\ \A k \in K : mm.inhibitors[k].since >= t

\* C12: is_inhibited(what, mode, for_uid?, ignore_inactive?) returns true iff
\* at least one stored inhibitor satisfies all of: its what intersects the
\* queried what, its mode is the queried mode, its uid is for_uid when for_uid
\* is set, and (when ignore_inactive) its session is active or online; when
\* true the timestamp returned is the minimum since over exactly the matching
\* inhibitors.  The query changes nothing.
C12_IsInhibited ==
    [][IsQuery(call') =>
          /\ ret' \in {0, 1}
          /\ ret' = 1 <=> Matching(m, call') # {}
          /\ ret' = 1 => IsMinSince(m, Matching(m, call'), out')
          /\ m' = m]_vars

\* Two inhibitors are stored; the query with a uid filter matched only the
\* later one and returned its since.
C12_Witness ==
    /\ IsQuery(call)
    /\ call.for_uid = 1000
    /\ ret = 1
    /\ Cardinality(DOMAIN m.inhibitors) = 2
    /\ Cardinality(Matching(m, call)) = 1
    /\ \E k \in DOMAIN m.inhibitors :
          m.inhibitors[k].started /\ m.inhibitors[k].since < out

\* A query that ignores inactive sessions matched the inhibitor of a process
\* whose session is online.
C12_WitnessActive ==
    /\ IsQuery(call)
    /\ call.ignore_inactive
    /\ ret = 1
    /\ \E k \in Matching(m, call) :
          m.sessions[call.cg[m.inhibitors[k].pid]].state = "online"

\* A query that ignores inactive sessions skipped the only inhibitor of its
\* category and mode, whose session is closing.
C12_WitnessInactive ==
    /\ IsQuery(call)
    /\ call.ignore_inactive
    /\ ret = 0
    /\ \E k \in Matching(m, [call EXCEPT !.ignore_inactive = FALSE]) :
          /\ call.cg[m.inhibitors[k].pid] \in DOMAIN m.sessions
          /\ m.sessions[call.cg[m.inhibitors[k].pid]].state = "closing"

\* The answer to is_inhibited(shutdown, block) with no uid filter, inactive
\* sessions not ignored.
ShutdownBlocked(mm) ==
    manager_is_inhibited(mm, INHIBIT_SHUTDOWN, INHIBIT_BLOCK, FALSE, UID_INVALID,
                         NoCgroups)

ShutdownBlockers(mm) ==
    {k \in DOMAIN mm.inhibitors :
        /\ "shutdown" \in mm.inhibitors[k].what
        /\ mm.inhibitors[k].mode = INHIBIT_BLOCK}

\* C13: once an inhibitor {what=shutdown|sleep, mode=block} is started,
\* is_inhibited(shutdown, block) is true, with that inhibitor's since when no
\* other inhibitor matches; once the inhibitor is freed it is out of the
\* registry and the same query, with no other matching inhibitor, returns
\* (false, 0); every later query answers from the inhibitors still stored: a
\* true answer carries the since of a stored matching inhibitor.
C13_InhibitorLifetime ==
    [][/\ call'.op = "inhibitor_start" =>
             LET i == m'.inhibitors[call'.key]
             IN  (i.what = INHIBIT_SHUTDOWN \cup INHIBIT_SLEEP
                  /\ i.mode = INHIBIT_BLOCK) =>
                    /\ ShutdownBlocked(m').r
                    /\ ShutdownBlockers(m') = {call'.key} =>
                          ShutdownBlocked(m').since = i.since
       /\ call'.op = "inhibitor_free" =>
             /\ call'.key \notin DOMAIN m'.inhibitors
             /\ ShutdownBlockers(m) \subseteq {call'.key} =>
                   ShutdownBlocked(m') = [r |-> FALSE, since |-> 0]
             /\ ShutdownBlockers(m) \ {call'.key} # {} =>
                   /\ ShutdownBlocked(m').r
                   /\ \E k \in ShutdownBlockers(m) \ {call'.key} :
                         m.inhibitors[k].since = ShutdownBlocked(m').since
       /\ (IsQuery(call') /\ ret' = 1) =>
             \E k \in DOMAIN m.inhibitors :
                /\ m.inhibitors[k].since = out'
                /\ m.inhibitors[k].started
       /\ (IsQuery(call') /\ Matching(m, call') = {}) =>
             (ret' = 0 /\ out' = 0)]_vars

\* The only shutdown-blocking inhibitor was freed while another inhibitor
\* stays; the registry no longer blocks shutdown.
C13_Witness ==
    /\ call.op = "inhibitor_free"
    /\ call.key \notin DOMAIN m.inhibitors
    /\ ShutdownBlocked(m) = [r |-> FALSE, since |-> 0]
    /\ \E k \in DOMAIN m.inhibitors :
          m.inhibitors[k].started /\ m.inhibitors[k].since > 1
    /\ m.monotonic > MaxTime

----------------------------------------------------------------------------
(* Properties of sessions *)

\* A session's links are sound: its user is in the user registry and lists
\* the session; its seat, if set, is in the seat registry and lists it.
SessionLinked(mm, rec) ==
    /\ rec.user # NULL
    /\ IsLive(mm.users, rec.user)
    /\ rec.ptr \in Usr(mm, rec.user).sessions
    /\ rec.seat # NULL =>
          /\ IsLive(mm.seats, rec.seat)
          /\ rec.ptr \in SeatRec(mm, rec.seat).sessions

\* C15 as stated: every session in the session registry, also right after
\* manager_add_session created it, has a live user with the session in that
\* user's session set, and if its seat is set it is in that seat's session
\* list.
C15_Original == \A k \in DOMAIN m.sessions : SessionLinked(m, m.sessions[k])

\* C15 amended: every session in the session registry that has been bound to
\* a user has a live user with the session in that user's session set, and
\* if its seat is set it is in that seat's session list; the record
\* manager_add_session creates has no user and no seat until the caller
\* binds them, and manager_add_session for a stored id leaves the session's
\* links as they are.
C15_SessionLinks ==
    [][/\ \A k \in DOMAIN m'.sessions :
             \/ m'.sessions[k].user = NULL /\ m'.sessions[k].seat = NULL
             \/ SessionLinked(m', m'.sessions[k])
       /\ (call'.op = "manager_add_session" /\ ret' = 0) =>
             IF call'.key \in DOMAIN m.sessions
             THEN m'.sessions[call'.key] = m.sessions[call'.key]
             ELSE m'.sessions[call'.key].user = NULL
       /\ (call'.op = "create_session" /\ ret' = 0) =>
             SessionLinked(m', m'.sessions[call'.key])]_vars

\* manager_add_session was called for the id of a session that is bound to
\* a user and a seat, and the session kept both.
C15_Witness ==
    /\ call.op = "manager_add_session"
    /\ ret = 0
    /\ m.sessions[call.key].user # NULL
    /\ m.sessions[call.key].seat # NULL
    /\ SessionLinked(m, m.sessions[call.key])

----------------------------------------------------------------------------
(* Properties of the bus-name watch set *)

Controlled(mm, name) ==
    \E k \in DOMAIN mm.sessions : mm.sessions[k].controller = name

\* C16: manager_drop_busname(name) removes name from the watch set iff no
\* session in the registry has name as its controller, and otherwise leaves
\* the set unchanged: while session s1 is controlled by ":1.42" a drop keeps
\* the watch, and a drop after s1 is released removes it.  Nothing else
\* changes.
C16_DropBusname ==
    [][call'.op = "manager_drop_busname" =>
          /\ IF Controlled(m, call'.name)
             THEN m' = m /\ line' = 219
             ELSE /\ m' = [m EXCEPT !.busnames = @ \ {call'.name}]
                  /\ call'.name \notin m'.busnames
                  /\ line' = 222
                  /\ call'.name \in m.busnames <=> out' = call'.name
          /\ Controlled(m, call'.name) => call'.name \in m'.busnames]_vars

\* A drop removed a watched name that no session controls, while a session
\* controlled by the other peer is in the registry.
C16_Witness ==
    /\ call.op = "manager_drop_busname"
    /\ line = 222
    /\ out = call.name
    /\ call.name \notin m.busnames
    /\ \E k \in DOMAIN m.sessions : m.sessions[k].controller \in m.busnames

\* A drop kept the watch of a peer that controls a session.
C16_WitnessKept ==
    /\ call.op = "manager_drop_busname"
    /\ line = 219
    /\ call.name \in m.busnames
    /\ Controlled(m, call.name)

\* C17: manager_watch_busname is idempotent: for a name that is watched it
\* returns 0 and changes nothing, so the set holds the name once however
\* often it is watched; for a name that is not watched it either returns 0
\* with the name added to the set, or returns the error of the failed
\* insertion with the set unchanged.
C17_WatchBusname ==
    [][call'.op = "manager_watch_busname" =>
          IF call'.name \in m.busnames
          THEN ret' = 0 /\ m' = m
          ELSE \/ /\ ret' = 0
                  /\ call'.fail = "none"
                  /\ m' = [m EXCEPT !.busnames = @ \cup {call'.name}]
               \/ /\ ret' < 0
                  /\ call'.fail # "none"
                  /\ m' = m]_vars

\* A watched name was watched again in a call whose copy of the name would
\* have failed; the call returned 0.
C17_Witness ==
    /\ call.op = "manager_watch_busname"
    /\ call.fail = "strdup"
    /\ ret = 0
    /\ call.name \in m.busnames
    /\ Cardinality(m.busnames) = 2

----------------------------------------------------------------------------
(* Properties of the process-to-session resolver *)

\* The session the classifier names for the pid of the call c, if the
\* registry holds it.
Classified(mm, c) ==
    IF c.pid >= 1 /\ c.cg[c.pid] \in DOMAIN mm.sessions
    THEN {mm.sessions[c.cg[c.pid]]}
    ELSE {}

\* C18: manager_get_session_by_pid returns a negative error for pid < 1;
\* returns 0, its output not written, when the classifier fails or names a
\* session id the registry does not hold; returns 1 with the registered
\* session otherwise.  manager_get_user_by_pid returns the same code when it
\* is <= 0, its output not written, and on 1 hands out that session's user.
\* Neither changes the Manager.
C18_PidLookups ==
    [][(call'.op \in {"manager_get_session_by_pid", "manager_get_user_by_pid"}) =>
          /\ m' = m
          /\ call'.pid < 1 => (ret' = -EINVAL /\ out' = UNSET)
          /\ (call'.pid >= 1 /\ Classified(m, call') = {}) =>
                (ret' = 0 /\ out' = UNSET)
          /\ (call'.pid >= 1 /\ Classified(m, call') # {}) =>
                /\ ret' = 1
                /\ \E rec \in Classified(m, call') :
                      out' = IF call'.op = "manager_get_session_by_pid"
                             THEN rec.ptr ELSE rec.user
          /\ ret' \in {-EINVAL, 0, 1}]_vars

\* manager_get_user_by_pid found the session of the process and handed out
\* its user, who has two sessions.
C18_Witness ==
    /\ call.op = "manager_get_user_by_pid"
    /\ ret = 1
    /\ out # NULL
    /\ IsLive(m.users, out)
    /\ Cardinality(Usr(m, out).sessions) = 2

\* The classifier named a session the registry does not hold while it holds
\* another one.
C18_WitnessAbsent ==
    /\ call.op = "manager_get_session_by_pid"
    /\ call.pid >= 1
    /\ call.cg[call.pid] \in SessionIds \ DOMAIN m.sessions
    /\ m.sessions # EmptyMap
    /\ ret = 0
    /\ out = UNSET

----------------------------------------------------------------------------
(* Properties of the kill policy and the idle hint *)

\* The configuration of the kill-policy matrix: kill_user_processes=true,
\* kill_exclude_users={root}, kill_only_users={alice}.
KillMatrix(mm) ==
    /\ mm.kill_user_processes
    /\ mm.kill_exclude_users = {"root"}
    /\ mm.kill_only_users = {"alice"}

\* C19: manager_shall_kill(user) is true iff kill_user_processes is true and
\* user is not in kill_exclude_users and (kill_only_users is empty or user is
\* in kill_only_users); a user listed in both lists is not killed.  With
\* kill=true, exclude={root}, only={alice}: root false, alice true, bob
\* false.
C19_ShallKill ==
    [][call'.op = "manager_shall_kill" =>
          LET u == call'.user
          IN  /\ m' = m
              /\ ret' \in {0, 1}
              /\ ret' = 1 <=>
                    /\ m.kill_user_processes
                    /\ u \notin m.kill_exclude_users
                    /\ (m.kill_only_users = {} \/ u \in m.kill_only_users)
              /\ (u \in m.kill_exclude_users /\ u \in m.kill_only_users) => ret' = 0
              /\ KillMatrix(m) =>
                    ret' = (CASE u = "root" -> 0 [] u = "alice" -> 1 [] u = "bob" -> 0)]_vars

\* With killing switched on, a user listed in both lists was asked about and
\* is not killed.
C19_Witness ==
    /\ call.op = "manager_shall_kill"
    /\ m.kill_user_processes
    /\ call.user \in m.kill_exclude_users
    /\ call.user \in m.kill_only_users
    /\ ret = 0

\* Whether an inhibitor that blocks idle is stored.
IdleBlocked(mm) ==
    \E k \in DOMAIN mm.inhibitors :
        "idle" \in mm.inhibitors[k].what /\ mm.inhibitors[k].mode = INHIBIT_BLOCK

\* t is the latest idle timestamp of the sessions, 0 when there are none.
IsLatest(mm, t) ==
    /\ \A k \in DOMAIN mm.sessions : mm.sessions[k].idle_ts <= t
    /\ t = 0 \/ \E k \in DOMAIN mm.sessions : mm.sessions[k].idle_ts = t

\* The sessions of the example: (idle, 10) and (idle, 20).
IdleExample(mm) ==
    /\ Cardinality(DOMAIN mm.sessions) = 2
    /\ \A k \in DOMAIN mm.sessions : mm.sessions[k].idle_hint
    /\ {mm.sessions[k].idle_ts : k \in DOMAIN mm.sessions} = {10, 20}

\* C20: manager_get_idle_hint with no idle-block inhibitor and every session
\* idle returns idle=true with the latest (maximum) idle timestamp of the
\* sessions; with no sessions it returns (true, 0); the sessions (idle, 10),
\* (idle, 20) give (true, 20).
C20_AllIdle ==
    [][(/\ call'.op = "manager_get_idle_hint"
        /\ ~IdleBlocked(m)
        /\ \A k \in DOMAIN m.sessions : m.sessions[k].idle_hint)
       => /\ ret' = 1
          /\ IsLatest(m, out')
          /\ m.sessions = EmptyMap => out' = 0
          /\ IdleExample(m) => out' = 20
          /\ m' = m]_vars

\* The example, iterated with the later report first.
C20_Witness ==
    /\ call.op = "manager_get_idle_hint"
    /\ ~IdleBlocked(m)
    /\ IdleExample(m)
    /\ m.sessions[call.order[1]].idle_ts = 20
    /\ ret = 1
    /\ out = 20

\* No sessions and no inhibitor: (true, 0).
C20_WitnessNone ==
    /\ call.op = "manager_get_idle_hint"
    /\ m.sessions = EmptyMap
    /\ m.inhibitors = EmptyMap
    /\ ret = 1
    /\ out = 0

\* The timestamps of the sessions that reported non-idle.
BusySince(mm) ==
    {mm.sessions[k].idle_ts : k \in {x \in DOMAIN mm.sessions :
                                        ~mm.sessions[x].idle_hint}}

\* C21: manager_get_idle_hint with no idle-block inhibitor and at least one
\* non-idle session returns idle=false with the earliest (minimum) timestamp
\* among the non-idle sessions, whatever the idle sessions' timestamps and
\* the iteration order are.
C21_SomeBusy ==
    [][(/\ call'.op = "manager_get_idle_hint"
        /\ ~IdleBlocked(m)
        /\ BusySince(m) # {})
       => /\ ret' = 0
          /\ out' \in BusySince(m)
          /\ \A t \in BusySince(m) : out' <= t
          /\ m' = m]_vars

\* An idle session with an earlier timestamp is iterated before the non-idle
\* session: the result is the non-idle session's timestamp.
C21_Witness ==
    /\ call.op = "manager_get_idle_hint"
    /\ ~IdleBlocked(m)
    /\ Len(call.order) = 2
    /\ m.sessions[call.order[1]].idle_hint
    /\ ~m.sessions[call.order[2]].idle_hint
    /\ m.sessions[call.order[1]].idle_ts < m.sessions[call.order[2]].idle_ts
    /\ ret = 0
    /\ out = m.sessions[call.order[2]].idle_ts

\* C36: manager_get_idle_hint while an idle-block inhibitor is active
\* returns idle=false and a zero timestamp for every set of sessions: neither
\* the inhibitor's since nor a session's timestamp is reported.
C36_IdleBlocked ==
    [][(call'.op = "manager_get_idle_hint" /\ IdleBlocked(m))
       => /\ ret' = 0
          /\ out' = 0
          /\ \A k \in DOMAIN m.inhibitors : m.inhibitors[k].since # out'
          /\ \A k \in DOMAIN m.sessions : m.sessions[k].idle_ts # out'
          /\ m' = m]_vars

\* An inhibitor taken at a positive time blocks idle while a session
\* reports that it is not idle.
C36_Witness ==
    /\ call.op = "manager_get_idle_hint"
    /\ IdleBlocked(m)
    /\ \E k \in DOMAIN m.inhibitors : m.inhibitors[k].since > 0
    /\ \E k \in DOMAIN m.sessions : ~m.sessions[k].idle_hint
    /\ ret = 0
    /\ out = 0

\* C37: the result of manager_get_idle_hint is the same for every order in
\* which the session registry is iterated.
C37_OrderIndependent ==
    [][call'.op = "manager_get_idle_hint"
       => \A o \in Orders(DOMAIN m.sessions) :
             LET res == manager_get_idle_hint(m, o)
             IN  res.r = ret' /\ res.t = out']_vars

\* Two sessions, one idle with the earlier report and one not idle, iterated
\* with the session that is not idle first.
C37_Witness ==
    /\ call.op = "manager_get_idle_hint"
    /\ Len(call.order) = 2
    /\ ~m.sessions[call.order[1]].idle_hint
    /\ m.sessions[call.order[2]].idle_hint
    /\ m.sessions[call.order[2]].idle_ts < m.sessions[call.order[1]].idle_ts
    /\ ret = 0
    /\ out = m.sessions[call.order[1]].idle_ts

\* The matrix: alice is killed.
C19_WitnessMatrix ==
    /\ call.op = "manager_shall_kill"
    /\ KillMatrix(m)
    /\ call.user = "alice"
    /\ ret = 1

----------------------------------------------------------------------------
(* Properties of the display heuristic *)

\* Some button in the registry reports a dock.
Docked(mm) == {k \in DOMAIN mm.buttons : mm.buttons[k].docked} # {}

\* The connected connectors among the drm devices of sysfs: those whose
\* parent is of the drm subsystem and whose status is not "disconnected".
Connected(env) ==
    Cardinality({i \in 1..Len(env.items) :
                    /\ env.items[i].parent = "drm"
                    /\ env.items[i].status # "disconnected"})

\* No udev call of the enumeration fails.
EnumerationSucceeds(env) ==
    /\ env.enumerate = "ok"
    /\ \A i \in 1..Len(env.items) : env.items[i].created

IsHeuristicCall(c) == c.op = "manager_is_docked_or_multiple_displays"

\* C22 as stated: the result is true iff a button is docked or more than one
\* connector is connected.
C22_Original ==
    [][IsHeuristicCall(call') =>
          (ret' = 1 <=> (Docked(m) \/ Connected(m.udev) > 1))]_vars

\* C22 amended: manager_is_docked_or_multiple_displays returns true iff some
\* button has docked=true or the enumeration of the connectors succeeds and
\* finds more than one connected; with no docked button and 0 or 1 connected
\* connectors it returns false.
C22_DockedOrMultiple ==
    [][IsHeuristicCall(call') =>
          /\ ret' \in {0, 1}
          /\ ret' = 1 <=> \/ Docked(m)
                           \/ /\ EnumerationSucceeds(m.udev)
                              /\ Connected(m.udev) > 1
          /\ (~Docked(m) /\ Connected(m.udev) <= 1) => ret' = 0]_vars

\* Two connected connectors and no docked button: true.
C22_Witness ==
    /\ IsHeuristicCall(call)
    /\ m.buttons # EmptyMap
    /\ ~Docked(m)
    /\ EnumerationSucceeds(m.udev)
    /\ Connected(m.udev) = 2
    /\ ret = 1
    /\ line = 507

\* C23: when the enumeration of the connectors fails and no button is docked,
\* manager_is_docked_or_multiple_displays returns false and changes no
\* manager state; when a button is docked it returns true whether or not the
\* enumeration would fail.
C23_EnumerationFails ==
    [][IsHeuristicCall(call') =>
          /\ m' = m
          /\ (~EnumerationSucceeds(m.udev) /\ ~Docked(m)) =>
                /\ manager_count_displays(m) < 0
                /\ ret' = 0
          /\ Docked(m) => ret' = 1]_vars

\* The scan fails while two connectors are connected and no button is
\* docked: false.
C23_Witness ==
    /\ IsHeuristicCall(call)
    /\ ~Docked(m)
    /\ m.udev.enumerate = "scan"
    /\ Connected(m.udev) = 2
    /\ ret = 0
    /\ line = 510

\* A button is docked and the enumeration would fail: true.
C23_WitnessDocked ==
    /\ IsHeuristicCall(call)
    /\ Docked(m)
    /\ ~EnumerationSucceeds(m.udev)
    /\ ret = 1
    /\ line = 497

\* C24 as stated: manager_count_displays returns the number of connected
\* connectors.
C24_Original ==
    [][call'.op = "manager_count_displays" => ret' = Connected(m.udev)]_vars

\* C24 amended: when no udev call fails, manager_count_displays returns the
\* number of enumerated drm devices that have a parent of the drm subsystem
\* and a status other than "disconnected" (a missing status counts as
\* connected; a device with no parent or a non-drm parent is not counted);
\* when a udev call fails it returns a negative error and no count.
C24_CountDisplays ==
    [][call'.op = "manager_count_displays" =>
          /\ m' = m
          /\ IF EnumerationSucceeds(m.udev)
             THEN ret' = Connected(m.udev)
             ELSE /\ ret' < 0
                  /\ m.udev.enumerate \in {"ok", "new"} => ret' = -ENOMEM
                  /\ m.udev.enumerate \in {"match", "scan"} => ret' = m.udev.err]_vars

\* A connector without a status attribute is counted, a device with a
\* parent outside drm is not.
C24_Witness ==
    /\ call.op = "manager_count_displays"
    /\ EnumerationSucceeds(m.udev)
    /\ Len(m.udev.items) = 2
    /\ \E i \in 1..2 : /\ m.udev.items[i].parent = "drm"
                       /\ m.udev.items[i].status = NULL_NAME
    /\ \E i \in 1..2 : m.udev.items[i].parent \notin {"drm", "none"}
    /\ ret = 1

\* The second device of the list cannot be created: -ENOMEM, no count.
C24_WitnessFailure ==
    /\ call.op = "manager_count_displays"
    /\ m.udev.enumerate = "ok"
    /\ Len(m.udev.items) = 2
    /\ m.udev.items[1].created
    /\ ~m.udev.items[2].created
    /\ Connected(m.udev) = 2
    /\ ret = -ENOMEM

----------------------------------------------------------------------------
(* Properties of manager_process_button_device *)

IsButtonDeviceCall(c) == c.op = "manager_process_button_device"

\* The buttons other than the one of sysname k are the same in mm and nn.
OtherButtonsSame(mm, nn, k) ==
    /\ DOMAIN mm.buttons \ {k} = DOMAIN nn.buttons \ {k}
    /\ \A x \in DOMAIN mm.buttons \ {k} : nn.buttons[x] = mm.buttons[x]

\* Only the button registry differs between mm and nn.
OnlyButtonsChange(mm, nn) == [nn EXCEPT !.buttons = mm.buttons] = mm

\* The event's button is registered, bound to the event's seat and open; a
\* record that existed before is the same record.
ButtonUpserted(mm, nn, d) ==
    LET k == d.sysname
    IN  /\ k \in DOMAIN nn.buttons
        /\ nn.buttons[k].seat = ResolvedSeatId(d)
        /\ nn.buttons[k].fd # -1
        /\ k \in DOMAIN mm.buttons =>
              /\ nn.buttons[k].ptr = mm.buttons[k].ptr
              /\ nn.buttons[k].docked = mm.buttons[k].docked
              /\ nn.buttons[k].lid_closed = mm.buttons[k].lid_closed
        /\ \A x \in DOMAIN nn.buttons \ {k} : nn.buttons[x].ptr # nn.buttons[k].ptr

\* On remove the button of the sysname is freed if present and nothing
\* changes if absent.
ButtonRemoved(mm, nn, d) ==
    /\ d.sysname \notin DOMAIN nn.buttons
    /\ d.sysname \notin DOMAIN mm.buttons => nn = mm

\* C27 as stated: on remove the button is freed if present; on any other
\* action the button is upserted by sysname, bound to the seat id from
\* ID_SEAT, and its evdev fd is opened.
C27_Original ==
    [][IsButtonDeviceCall(call') =>
          /\ OtherButtonsSame(m, m', call'.d.sysname)
          /\ OnlyButtonsChange(m, m')
          /\ IF call'.d.action = "remove"
             THEN ButtonRemoved(m, m', call'.d)
             ELSE ButtonUpserted(m, m', call'.d)]_vars

\* C27 amended: on remove, the button record for the sysname is freed if
\* present and nothing changes if absent; on any other action the button is
\* upserted by sysname, bound to the seat id from ID_SEAT (seat0 when absent
\* or empty) and its evdev fd is opened, unless the sysname has no record and
\* the allocation of one fails: then -ENOMEM is returned and nothing changes.
\* No event touches the record of another sysname.
C27_ButtonDevice ==
    [][IsButtonDeviceCall(call') =>
          /\ OtherButtonsSame(m, m', call'.d.sysname)
          /\ OnlyButtonsChange(m, m')
          /\ IF call'.d.action = "remove"
             THEN ButtonRemoved(m, m', call'.d) /\ ret' = 0
             ELSE \/ ButtonUpserted(m, m', call'.d) /\ ret' = 0
                  \/ /\ ret' = -ENOMEM
                     /\ call'.d.sysname \notin DOMAIN m.buttons
                     /\ m' = m]_vars

\* An event for a registered button that reported a dock names another
\* seat: the same record, now bound to that seat, next to a second button.
C27_Witness ==
    /\ IsButtonDeviceCall(call)
    /\ call.d.action # "remove"
    /\ ret = 0
    /\ Cardinality(DOMAIN m.buttons) = 2
    /\ m.buttons[call.d.sysname].seat = Str_seat1
    /\ m.buttons[call.d.sysname].docked
    /\ m.buttons[call.d.sysname].fd # -1

\* A remove event freed one of two buttons.
C27_WitnessRemove ==
    /\ IsButtonDeviceCall(call)
    /\ call.d.action = "remove"
    /\ line = 311
    /\ Cardinality(DOMAIN m.buttons) = 1

----------------------------------------------------------------------------
(* Properties of elogind_setup_cgroups_agent and of the dispatch order *)

IsSetupCall(c) == c.op = "elogind_setup_cgroups_agent"

\* The agent sources of the loop.
AgentSources(mm) ==
    {a \in DOMAIN mm.event.sources : mm.event.sources[a].kind = "cgroups-agent"}

\* C39: after any number of calls of elogind_setup_cgroups_agent the Manager
\* holds at most one agent socket and at most one agent event source, and no
\* other socket is open; a call made when both exist creates nothing; when
\* test_run is set, the Manager is not the system instance or the unified
\* hierarchy is in use the call returns 0 and changes nothing; when socket or
\* bind fails the agent fd stays -1 and no socket is left open.
C39_SetupIdempotent ==
    [][IsSetupCall(call') =>
          /\ m'.sockets = (IF m'.cgroups_agent_fd >= 0
                           THEN {m'.cgroups_agent_fd} ELSE {})
          /\ AgentSources(m') = (IF m'.cgroups_agent_event_source # NULL
                                 THEN {m'.cgroups_agent_event_source} ELSE {})
          /\ (m.cgroups_agent_fd >= 0 /\ m.cgroups_agent_event_source # NULL) =>
                /\ m' = m
                /\ ret' <= 0
          /\ (m.test_run \/ ~m.is_system \/ call'.env.unified > 0) =>
                /\ ret' = 0
                /\ m' = m
          /\ line' \in {184, 194} =>
                /\ ret' < 0
                /\ m.cgroups_agent_fd = -1
                /\ m'.cgroups_agent_fd = -1
                /\ m'.sockets = {}]_vars

\* A call found the socket and the event source of an earlier call, in which
\* setting the priority had failed, and returned 0.
C39_Witness ==
    /\ IsSetupCall(call)
    /\ line = 216
    /\ ret = 0
    /\ m.cgroups_agent_fd = 3
    /\ m.sockets = {3}
    /\ m.cgroups_agent_event_source # NULL
    /\ m.event.sources[m.cgroups_agent_event_source].priority = SD_EVENT_PRIORITY_NORMAL
    /\ call.env.socket_errno # 0

\* bind failed in a call on a Manager without agent socket.
C39_WitnessBind ==
    /\ IsSetupCall(call)
    /\ line = 194
    /\ ret = -EINVAL
    /\ m.cgroups_agent_fd = -1
    /\ m.sockets = {}

\* C31: in an iteration of the event loop in which the agent's source is
\* pending together with the child-death source or the service-notification
\* source, the agent's source is not the one dispatched: it is dispatched
\* after them.
C31_AgentDispatchedLast ==
    [][/\ (call'.op = "sd_event_run" /\ call'.kind = "cgroups-agent") =>
             \A b \in m.event.pending : m.event.sources[b].kind = "cgroups-agent"
       /\ (call'.op = "sd_event_run"
           /\ \E b \in m.event.pending : m.event.sources[b].kind # "cgroups-agent") =>
             /\ call'.kind # "cgroups-agent"
             /\ AgentSources(m) \cap m.event.pending \subseteq m'.event.pending]_vars

\* The three sources were pending in one iteration, and the source
\* dispatched in it was not the agent's, which is still pending.
C31_Witness ==
    /\ call.op = "sd_event_run"
    /\ call.pending = {"child", "notify", "cgroups-agent"}
    /\ call.kind # "cgroups-agent"
    /\ m.cgroups_agent_event_source \in m.event.pending
    /\ m.event.sources[m.cgroups_agent_event_source].priority = cgroups_agent_priority

\* The agent's source was dispatched in an iteration in which it was the
\* only pending source, and the daemon was told of an empty cgroup.
C31_WitnessAgent ==
    /\ call.op = "sd_event_run"
    /\ call.kind = "cgroups-agent"
    /\ call.pending = {"cgroups-agent"}
    /\ line = 138
    /\ m.cgroup_empty # <<>>

----------------------------------------------------------------------------
(* Properties of the cgroups agent dispatcher *)

IsAgentCall(c) == c.op = "manager_dispatch_cgroups_agent_fd"

\* The datagram is malformed: empty, as long as the receive buffer or
\* longer, or with a NUL byte.
Malformed(msg) ==
    \/ Len(msg) = 0
    \/ Len(msg) >= PATH_MAX + 1
    \/ \E i \in 1..Len(msg) : msg[i] = 0

\* C29: manager_dispatch_cgroups_agent_fd returns 0 and notifies nobody,
\* leaving the daemon's state as it is, for a zero-length message, a message
\* that fills the whole receive buffer and a message with a NUL byte; any
\* other received message triggers exactly one cgroup-empty notification
\* with the received path and returns 0; a failed recv returns a negative
\* error and notifies nobody.
C29_AgentDispatch ==
    [][IsAgentCall(call') =>
          IF call'.env.errno # 0
          THEN ret' < 0 /\ m' = m
          ELSE IF Malformed(call'.env.msg)
          THEN ret' = 0 /\ m' = m
          ELSE /\ ret' = 0
               /\ m'.cgroup_empty = Append(m.cgroup_empty, call'.env.msg)
               /\ [m' EXCEPT !.cgroup_empty = m.cgroup_empty] = m]_vars

\* A message with a NUL byte after a path was dropped, after a well-formed
\* one was notified.
C29_Witness ==
    /\ IsAgentCall(call)
    /\ call.env.errno = 0
    /\ Len(call.env.msg) = PATH_MAX
    /\ call.env.msg[1] # 0
    /\ call.env.msg[PATH_MAX] = 0
    /\ ret = 0
    /\ line = 132
    /\ Len(m.cgroup_empty) = 1

\* A message of exactly PATH_MAX bytes without NUL was notified.
C29_WitnessNotified ==
    /\ IsAgentCall(call)
    /\ Len(call.env.msg) = PATH_MAX
    /\ line = 138
    /\ m.cgroup_empty = <<call.env.msg>>

----------------------------------------------------------------------------
(* Properties of elogind_daemonize *)

IsDaemonStep(c, p, step) ==
    c.op = "elogind_daemonize" /\ c.proc = p /\ c.step = step

HasReturned(ps, p) == ps[p].pc \in {"returned", "exited"}

Terminated(ps, p) == ps[p].pc \in {"exited", "killed"}

\* What the claim and its amendment share: only the grandchild gets 0, and
\* gets nothing else; the intermediate child gets the grandchild's PID; a
\* failed fork or setsid yields a negative value in its process.
DoubleForkReturns ==
    /\ \A p \in Procs : (HasReturned(procs', p) /\ procs'[p].r = 0) => p = "grandchild"
    /\ HasReturned(procs', "grandchild") => procs'["grandchild"].r = 0
    /\ (IsDaemonStep(call', "child", "fork2") /\ line' = 87) =>
          /\ procs["grandchild"].pc = "none"
          /\ procs'["grandchild"].pc = "pidfile"
          /\ ret' = procs'["grandchild"].pid
          /\ ret' > 0
          /\ procs'["child"] = [procs["child"] EXCEPT !.pc = "returned", !.r = ret']
    /\ (IsDaemonStep(call', "original", "fork") /\ line' = 61) =>
          /\ ret' < 0
          /\ procs' = [procs EXCEPT !["original"].pc = "returned",
                                     !["original"].r = ret']
    /\ (IsDaemonStep(call', "child", "setsid") /\ line' = 76) =>
          /\ ret' < 0
          /\ procs' = [procs EXCEPT !["child"].pc = "returned", !["child"].r = ret']
    /\ (IsDaemonStep(call', "child", "fork2") /\ line' = 83) =>
          /\ ret' < 0
          /\ procs' = [procs EXCEPT !["child"].pc = "returned", !["child"].r = ret']

\* C30 as stated: when no fork or setsid fails the original process gets
\* the first child's PID, after that child has terminated.
C30_Original ==
    [][/\ DoubleForkReturns
       /\ (/\ HasReturned(procs', "original")
           /\ procs'["child"].pc # "none"
           /\ procs'["child"].r >= 0) =>
             /\ procs'["original"].r = procs'["child"].pid
             /\ procs'["original"].r > 0
             /\ Terminated(procs', "child")]_vars

\* C30 amended: only the grandchild gets 0; the intermediate child gets the
\* grandchild's PID (> 0); a failed fork or setsid yields a negative value in
\* the process where it occurred; the original process returns only after
\* the first child has terminated, and gets the child's PID (> 0) unless
\* waiting for the child fails or the child was killed by a signal: then it
\* gets the negative result of the wait.
C30_DoubleFork ==
    [][/\ DoubleForkReturns
       /\ (HasReturned(procs', "original") /\ procs'["child"].pc # "none") =>
             /\ Terminated(procs', "child")
             /\ \/ /\ procs'["original"].r = procs'["child"].pid
                   /\ procs'["original"].r > 0
                   /\ procs'["child"].pc = "exited"
                \/ procs'["original"].r < 0
       /\ IsDaemonStep(call', "original", "wait") =>
             /\ line' = 68 <=> ret' < 0
             /\ procs["child"].pc = "killed" => ret' \in {-EPROTO, -ECHILD}]_vars

\* All three processes have returned: the original the child's PID, the
\* child the grandchild's, the grandchild 0.
C30_Witness ==
    /\ \A p \in Procs : HasReturned(procs, p)
    /\ procs["original"].r = procs["child"].pid
    /\ procs["child"].r = procs["grandchild"].pid
    /\ procs["grandchild"].r = 0
    /\ procs["child"].pc = "exited"

\* The wait failed after both forks and setsid succeeded.
C30_WitnessWait ==
    /\ HasReturned(procs, "original")
    /\ procs["original"].r < 0
    /\ procs["child"].r = procs["grandchild"].pid
    /\ procs["grandchild"].pc # "none"

----------------------------------------------------------------------------
(* Properties of the VT probe *)

IsVtCall(c) == c.op = "vt_is_busy"

VtSucceeds(c) == c.env.open = 0 /\ c.env.ioctl = 0

\* C25: vt_is_busy(n) for n >= 1, when the terminal open and the VT state
\* ioctl succeed, returns 1 iff bit n (value 2^n) of the in-use mask v_state
\* is set and 0 otherwise; when the open or the ioctl fails it returns the
\* negative errno.
C25_BitN ==
    [][IsVtCall(call') =>
          IF VtSucceeds(call')
          THEN ret' = IF Bit(call'.env.v_state, call'.vtnr) THEN 1 ELSE 0
          ELSE /\ ret' < 0
               /\ ret' = IF call'.env.open # 0 THEN -call'.env.open
                                                ELSE -call'.env.ioctl]_vars

\* The same for the VT numbers below IntWidth - 1, where the shift is
\* defined.
C25_BitNDefined ==
    [][(IsVtCall(call') /\ call'.vtnr < IntWidth - 1) =>
          IF VtSucceeds(call')
          THEN ret' = IF Bit(call'.env.v_state, call'.vtnr) THEN 1 ELSE 0
          ELSE /\ ret' < 0
               /\ ret' = IF call'.env.open # 0 THEN -call'.env.open
                                                ELSE -call'.env.ioctl]_vars

\* vt_is_busy(33) returned 1 for a mask in which only VT 1 is in use.
C25_Witness ==
    /\ IsVtCall(call)
    /\ VtSucceeds(call)
    /\ call.vtnr = IntWidth + 1
    /\ call.env.v_state = 2
    /\ ret = 1

\* C26 as stated: with v_state = 0b0000_1010, vt_is_busy(3) is true,
\* vt_is_busy(2) is true and vt_is_busy(1) is false.
C26_Original ==
    [][(IsVtCall(call') /\ VtSucceeds(call') /\ call'.env.v_state = 10) =>
          /\ call'.vtnr = 3 => ret' = 1
          /\ call'.vtnr = 2 => ret' = 1
          /\ call'.vtnr = 1 => ret' = 0]_vars

\* C26 amended: with v_state = 0b0000_1010 (bits 1 and 3), vt_is_busy(3) is
\* true, vt_is_busy(2) is false and vt_is_busy(1) is true.
C26_Example ==
    [][(IsVtCall(call') /\ VtSucceeds(call') /\ call'.env.v_state = 10) =>
          /\ call'.vtnr = 3 => ret' = 1
          /\ call'.vtnr = 2 => ret' = 0
          /\ call'.vtnr = 1 => ret' = 1]_vars

\* The probe of VT 2 with the example mask.
C26_Witness ==
    /\ IsVtCall(call)
    /\ VtSucceeds(call)
    /\ call.env.v_state = 10
    /\ call.vtnr = 2
    /\ ret = 0

----------------------------------------------------------------------------
(* Properties of the registry add operations *)

AddOps ==
    {"manager_add_device", "manager_add_seat", "manager_add_session",
     "manager_add_user", "manager_add_inhibitor", "manager_add_button"}

IsAdd(c) == c.op \in AddOps

\* Whether the call just made passed master=true to manager_add_device for
\* syspath p: a direct call, or a seat-device event that got past the drop
\* tests (it left through the rollback or the end of the handler).
UpsertMaster(c, ln, p) ==
    \/ c.op = "manager_add_device" /\ c.key = p /\ c.master
    \/ /\ IsSeatDeviceCall(c)
       /\ c.d.syspath = p
       /\ c.d.action # "remove"
       /\ ln \in {270, 278}
       /\ HasMasterTag(c.d)

\* C6: the master flag of a device record is monotonic: while the record
\* lives, every step leaves master set if it was set, and master is the OR
\* of its old value and the master argument of an upsert made in the step; a
\* record that a step creates has the master argument of that upsert.
C6_MasterMonotonic ==
    [][\A p \in Syspaths :
          /\ (p \in DOMAIN m.devices /\ p \in DOMAIN m'.devices) =>
                /\ m.devices[p].master => m'.devices[p].master
                /\ m'.devices[p].master <=>
                      (m.devices[p].master \/ UpsertMaster(call', line', p))
          /\ (p \notin DOMAIN m.devices /\ p \in DOMAIN m'.devices) =>
                (m'.devices[p].master <=> UpsertMaster(call', line', p))]_vars

\* A device that is master was upserted again with master=false and kept
\* the flag.
C6_Witness ==
    /\ call.op = "manager_add_device"
    /\ ~call.master
    /\ ret = 0
    /\ call.key \in DOMAIN m.devices
    /\ m.devices[call.key].master
    /\ m.devices[call.key].seat # NULL

\* Two consecutive calls of the same add operation with the same key.
ConsecutiveAdds == IsAdd(call) /\ call'.op = call.op /\ call'.key = call.key

\* What the second of two such calls must do: return 0 and the entity the
\* first returned, which is the one record of the key, and allocate nothing.
SecondAddIsIdempotent ==
    /\ ret' = 0
    /\ out' = out
    /\ out' # NULL
    /\ call'.key \in DOMAIN m'[call'.kind]
    /\ m'[call'.kind][call'.key].ptr = out'
    /\ Cardinality({k \in DOMAIN m'[call'.kind] : m'[call'.kind][k].ptr = out'}) = 1
    /\ Live(m') = Live(m)
    /\ DOMAIN m'[call'.kind] = DOMAIN m[call'.kind]

C8_AddKeepsAttributes ==
    [][(/\ IsAdd(call')
        /\ call'.kind # "devices"
        /\ call'.key \in DOMAIN m[call'.kind])
       => /\ m' = m
          /\ ret' = 0
          /\ out' = m[call'.kind][call'.key].ptr]_vars

\* manager_add_user was called for an existing uid with another gid and
\* name; the user still has its own.
C8_Witness ==
    /\ call.op = "manager_add_user"
    /\ ret = 0
    /\ call.key \in DOMAIN m.users
    /\ m.users[call.key].gid # call.gid
    /\ m.users[call.key].name # call.name
    /\ out = m.users[call.key].ptr

IsRegistryAdd(c) == IsAdd(c) \/ c.op = "manager_add_user_by_uid"

\* A failed add returned -ENOMEM, for a key that had no record, and the
\* registries are as before (so the key still has none).
OnlyOutOfResources ==
    ret' < 0 =>
       /\ ret' = -ENOMEM
       /\ call'.key \notin DOMAIN m[call'.kind]
       /\ m' = m
       /\ call'.key \notin DOMAIN m'[call'.kind]

\* A lookup by key yields the record of the key, NULL for an absent key.
LookupNeverFails(mm) ==
    \A kind \in Kinds : \A k \in KeysOf(kind) :
        /\ k \notin DOMAIN mm[kind] => hashmap_get(mm[kind], k) = NULL
        /\ k \in DOMAIN mm[kind] =>
              /\ hashmap_get(mm[kind], k) # NULL
              /\ KeyOf(mm[kind], hashmap_get(mm[kind], k)) = k

\* C9 as stated: the only error a registry add operation
\* (manager_add_user_by_uid among them) returns is -ENOMEM, only when a new
\* record had to be allocated, and then the key has no record; a lookup by
\* key never fails.
C9_Original ==
    [][(IsRegistryAdd(call') => OnlyOutOfResources) /\ LookupNeverFails(m')]_vars

\* Whether the uid lookup of the manager_add_user_by_uid call failed.
UidLookupFailed(c) ==
    c.env = "EIO" \/ \A e \in Passwd : e.pw_uid # c.key

\* C9 amended: the only error manager_add_device, _seat, _session, _user,
\* _inhibitor and _button return is -ENOMEM, only when a new record had to be
\* allocated, and then the key has no record; manager_add_user_by_uid returns
\* in addition the error of a failed uid lookup (-errno, or -ENOENT for an
\* unknown uid) and then changes nothing; a lookup by key never fails.
C9_AddErrors ==
    [][/\ IsAdd(call') => OnlyOutOfResources
       /\ call'.op = "manager_add_user_by_uid" =>
             IF UidLookupFailed(call')
             THEN /\ ret' = IF call'.env = "EIO" THEN -EIO ELSE -ENOENT
                  /\ m' = m
             ELSE OnlyOutOfResources
       /\ LookupNeverFails(m')]_vars

\* An add failed with -ENOMEM while the heap had room: no record was made.
C9_Witness ==
    /\ IsAdd(call)
    /\ ret = -ENOMEM
    /\ out = NULL
    /\ call.key \notin DOMAIN m[call.kind]
    /\ Live(m) >= 1
    /\ Live(m) < MaxRecords

\* manager_add_user_by_uid failed with -ENOENT for a uid that has a record.
C9_WitnessLookup ==
    /\ call.op = "manager_add_user_by_uid"
    /\ ret = -ENOENT
    /\ call.key \in DOMAIN m.users

====
